---- MODULE Spec2Model ----
(***************************************************************************)
(* State-machine model of the serializers generated by SQLAWalker.walk.    *)
(*                                                                         *)
(* The repository holds two generations of the generator: the package      *)
(* pyxfer (pyxfer/pyxfer.py + pyxfer/type_support.py) and the package      *)
(* montgomery (montgomery/montgomery.py + montgomery/type_support.py).     *)
(* cfg.impl selects which generator produced the serializers that run.     *)
(*                                                                         *)
(* The walked schema is the one of the tests: Order (key order_id, field   *)
(* cost, collection relation parts -> OrderPart) and OrderPart (key        *)
(* order_part_id, field name, single relation order -> Order).             *)
(*                                                                         *)
(* A generated serializer is a recursive Python function; the model runs   *)
(* it on an explicit call stack, one action per generated code block.      *)
(*                                                                         *)
(* The walker and the type supports of a package do not always agree on    *)
(* the parameters of the emitters (pyxfer.py calls gen_create_instance()   *)
(* without the key tuple type_support.py declares; montgomery.py passes    *)
(* knames to cache_key and cache_on_write, which SQLADictTypeSupport of    *)
(* montgomery/type_support.py does not declare).  The model composes the   *)
(* code each emitter emits, as the walker orders it.                       *)
(*                                                                         *)
(* Synthesis (SQLAWalker.walk as a generator, with its registry) and the   *)
(* schedulers (SQLAAutoGen.make_serializers of pyxfer/pyxfer.py and of     *)
(* pyxfer/sqla_autogen.py, CodeGenQuick.make_serializers of montgomery)    *)
(* are modelled by the specification Synthesis, on the variable gen.       *)
(***************************************************************************)
EXTENDS Integers, Sequences, FiniteSets, TLC

VARIABLES
    cfg,      \* which generator, which type supports, which fields control
    src,      \* the source graph: node id -> source instance
    dst,      \* the destination heap: sequence of destination instances
    cache,    \* the cache dict handed to the top-level call
    stack,    \* the Python call stack of serializer invocations
    retval,   \* value returned by the last serializer invocation that ended
    status,   \* "idle", "running", "done", or the exception that ended the call
    produced, \* history: <<source node, returned value>> of every invocation that returned
    last,     \* history: the step taken last, with the source and destination it ran on
    trip,     \* round trip: which leg is running, and what the first leg started from
    gen,      \* synthesis: the walker's registry, the scheduler's series, the last call
    parked    \* concurrency: the top-level call that is not running now

vars == <<cfg, src, dst, cache, stack, retval, status, produced, last, trip, gen, parked>>

----------------------------------------------------------------------------
(* Bounds *)

\* Largest primary-key value; 0 stands for None (key not set).
MaxKey == 2
\* Largest number of items in the source collection Order.parts.
MaxItems == 2
\* Depth at which the interpreter gives up (stands for Python's recursion limit).
MaxDepth == 5

----------------------------------------------------------------------------
(* Values *)

\* Python's None, for instances and for field values.
None == 0

\* The cache key "None" (results must not be cached).
NoKey == <<>>

Impls == {"pyxfer", "montgomery"}

\* (source type support, destination type support) pairs.  "sqla" is
\* SQLATypeSupport, "obj" is ObjectTypeSupport, "dict" is SQLADictTypeSupport.
RepPairs == { <<"sqla", "obj">>, <<"sqla", "dict">>, <<"obj", "sqla">>,
              <<"dict", "sqla">>, <<"dict", "obj">> }

\* Source nodes: node 1 is the root Order, nodes 2..1+MaxItems are OrderParts,
\* the last node is a short dict referring to the root Order (the value of
\* 'order' in a part of a flattened source).
RootOrder == 1
PartNodes == 2..(1 + MaxItems)
RefOrder == 2 + MaxItems
SrcNodes == {RootOrder} \cup PartNodes \cup {RefOrder}

KeyAttr(t) == IF t = "Order" THEN "order_id" ELSE "order_part_id"
FieldAttr(t) == IF t = "Order" THEN "cost" ELSE "name"

\* Sequences over PartNodes of length <= MaxItems in which a node appears for
\* the first time only after all smaller nodes did (one list per renaming class).
RECURSIVE Canonical(_, _)
Canonical(s, seen) ==
    IF s = <<>> THEN TRUE
    ELSE /\ Head(s) <= seen + 1
         /\ Canonical(Tail(s), IF Head(s) = seen + 1 THEN seen + 1 ELSE seen)

PartsLists ==
    { s \in UNION { [1..n -> PartNodes] : n \in 0..MaxItems } : Canonical(s, 1) }

Range(s) == { s[i] : i \in DOMAIN s }

----------------------------------------------------------------------------
(* Type supports: names and cache keys *)

\* TypeSupport.type_name of the type support of representation rep for mapper t.
type_name(impl, rep, t) ==
    CASE rep = "sqla" -> t
      [] rep = "dict" -> "dict"
      [] rep = "obj"  -> IF impl = "pyxfer"
                         THEN (IF t = "Order" THEN "CopyOrder" ELSE "CopyOrderPart")
                         ELSE t

\* make_cache_base_name: "<source type name>_<destination type name>".
make_cache_base_name(impl, srcRep, dstRep, t) ==
    <<type_name(impl, srcRep, t), type_name(impl, dstRep, t)>>

\* id(source): an opaque token, distinct for distinct live objects.
IdToken(n) == MaxKey + n

\* TypeSupport.cache_key (default): (cache_base_name, id(source)).
default_cache_key(base, n) == <<base[1], base[2], IdToken(n)>>

\* pyxfer SQLADictTypeSupport.cache_key: reference marker, else ID marker,
\* else the key fields -- whatever their value.
pyxfer_dict_cache_key(base, rec) ==
    IF rec.PYXPTR # None THEN <<base[1], base[2], rec.PYXPTR>>
    ELSE IF rec.PYXID # None THEN <<base[1], base[2], rec.PYXID>>
    ELSE <<base[1], base[2], rec.key>>

\* montgomery SQLADictTypeSupport.cache_key: the key fields, None when unset.
montgomery_dict_cache_key(base, rec) ==
    IF rec.key = None THEN NoKey ELSE <<base[1], base[2], rec.key>>

\* source_type_support.cache_key( serializer, key_var, instance, cache_base_name)
cache_key(impl, srcRep, base, n, rec) ==
    IF srcRep = "dict"
    THEN (IF impl = "pyxfer" THEN pyxfer_dict_cache_key(base, rec)
                             ELSE montgomery_dict_cache_key(base, rec))
    ELSE default_cache_key(base, n)

\* The cache test with its first condition inverted: "cache_key is None and ...".
cache_hit_on_none(ck, c) == ck = NoKey /\ ck \in DOMAIN c

\* "if (cache_key is not None) and (cache_key in cache):"
cache_hit(ck, c) == ck # NoKey /\ ck \in DOMAIN c

----------------------------------------------------------------------------
(* Destination instances *)

\* A freshly constructed destination instance of mapper t (klass(), dict()).
NewInst(t) ==
    [ type |-> t, kind |-> "inst",
      order_id |-> None, cost |-> None, order_part_id |-> None, name |-> None,
      order |-> None, parts |-> <<>>,
      PYXID |-> None, PYXPTR |-> None,
      insess |-> FALSE, persistent |-> FALSE ]

\* The destination side before the call: an Order with key 1 whose parts are
\* OrderParts with keys 1..n; with a SQLA destination they are persistent
\* instances of the session.
PreHeap(n, sqla) ==
    <<[NewInst("Order") EXCEPT !.order_id = 1, !.cost = 20,
                               !.parts = [i \in 1..n |-> i + 1],
                               !.insess = sqla, !.persistent = sqla]>>
    \o [ i \in 1..n |->
           [NewInst("OrderPart") EXCEPT !.order_part_id = i, !.name = 20 + i,
                                        !.order = IF sqla THEN 1 ELSE None,
                                        !.insess = sqla, !.persistent = sqla] ]

\* session.identity_map lookup by (class, primary key).
IdentityMap(heap, t, k) ==
    { d \in DOMAIN heap : /\ heap[d].persistent
                          /\ heap[d].type = t
                          /\ heap[d][KeyAttr(t)] = k }

----------------------------------------------------------------------------
(* Initial states *)

SrcOrder(ko, lst, marks) ==
    [ type |-> "Order", key |-> ko, f |-> 11, order |-> None, parts |-> lst,
      PYXID |-> IF marks /\ ko = None THEN IdToken(RootOrder) ELSE None,
      PYXPTR |-> None, ref |-> FALSE ]

SrcPart(n, k, back, marks) ==
    [ type |-> "OrderPart", key |-> k, f |-> 10 + n,
      order |-> back, parts |-> <<>>,
      PYXID |-> IF marks /\ k = None THEN IdToken(n) ELSE None,
      PYXPTR |-> None, ref |-> FALSE ]

\* The short dict that a serializer towards SQLADictTypeSupport leaves for a
\* later occurrence of the entity whose full dict is full (see ShortDict):
\* pyxfer { '__PYXPTR' : key or id }, montgomery { key field : key value }.
\* Every other entry is missing.
SrcRef(impl, full) ==
    [ type |-> full.type, f |-> None, order |-> None, parts |-> <<>>,
      key |-> IF impl = "pyxfer" THEN None ELSE full.key,
      PYXID |-> None,
      PYXPTR |-> IF impl # "pyxfer" THEN None
                 ELSE IF full.key # None THEN full.key ELSE full.PYXID,
      ref |-> TRUE ]

\* A top-level call that has not started: its own empty cache, no frame yet.
NoCall == [ stack |-> << >>, cache |-> << >>, retval |-> None,
            status |-> "idle", produced |-> {},
            last |-> [op |-> "Init", src |-> None, darg |-> None] ]

\* The collection classes a SQLA relation may be declared with: a list (the
\* default), a set, or a mapped collection (a dict, neither list nor set).
CollectionClasses == {"list", "set", "dict"}

\* The state before the call, for fields controls that mark the relation
\* 'parts' and the non-key field with SKIP or not, for a relation 'parts' of
\* the destination declared with collection_class, the serializers being
\* generated already (walked) or not.
SetupWith(skipParts, skipField, collection_class, walked) ==
    /\ \E impl \in Impls, pair \in RepPairs, skipOrder \in BOOLEAN :
         /\ collection_class # "list" => pair[2] = "sqla"
         /\ cfg = [ impl |-> impl, srcRep |-> pair[1], dstRep |-> pair[2],
                    skipOrder |-> skipOrder,
                    skipParts |-> skipParts, skipField |-> skipField,
                    collection_class |-> collection_class ]
    /\ \E ko \in {None, 1}, lst \in PartsLists, back \in BOOLEAN, marks \in BOOLEAN,
          keys \in [PartNodes -> 0..MaxKey], refPart \in BOOLEAN, refBack \in BOOLEAN :
         \* unreachable parts and unused choices are fixed, not enumerated
         /\ \A n \in PartNodes \ Range(lst) : keys[n] = None
         /\ cfg.skipOrder => back
         /\ marks => cfg.srcRep = "dict"
         \* a flattened source may hold short dicts: the second part referring
         \* to the first one, the 'order' of the parts referring to the root
         /\ refPart => ( /\ cfg.srcRep = "dict"
                         /\ lst = <<2, 3>>
                         /\ keys[3] = None
                         /\ (cfg.impl = "pyxfer" => (keys[2] # None \/ marks)) )
         /\ refBack => ( /\ cfg.srcRep = "dict"
                         /\ back
                         /\ (cfg.impl = "pyxfer" => (ko # None \/ marks)) )
         /\ LET order == SrcOrder(ko, lst, marks)
                 part(n) == SrcPart(n, keys[n],
                                    IF back /\ n \in Range(lst)
                                    THEN (IF refBack THEN RefOrder ELSE RootOrder)
                                    ELSE None,
                                    marks)
            IN  src = [ n \in SrcNodes |->
                          IF n = RootOrder THEN order
                          ELSE IF n = RefOrder THEN SrcRef(cfg.impl, order)
                          ELSE IF refPart /\ n = 3 THEN SrcRef(cfg.impl, part(2))
                          ELSE part(n) ]
    /\ \E n \in 0..MaxKey, pre \in BOOLEAN :
         /\ cfg.dstRep = "sqla" => pre
         /\ (cfg.dstRep # "sqla" /\ pre) => n = 1
         /\ ~pre => n = 0
         /\ dst = IF pre THEN PreHeap(n, cfg.dstRep = "sqla") ELSE <<>>
    /\ cache = << >>
    /\ stack = << >>
    /\ retval = None
    /\ status = IF walked THEN "idle" ELSE "unwalked"
    /\ produced = {}
    /\ last = [op |-> "Init", src |-> None, darg |-> None]
    /\ trip = [leg |-> 1, key |-> None, items |-> <<>>]
    /\ parked = NoCall
    /\ gen = [calls |-> 0]

\* The schema of the tests, whose relations are lists, with its serializers.
Setup(skipParts, skipField) == SetupWith(skipParts, skipField, "list", TRUE)

\* The fields controls of the tests: 'parts' is delegated, the fields are
\* copied, 'order' is delegated or skipped.
Init == Setup(FALSE, FALSE)

\* Fields controls with at least one SKIP.
SkipInit ==
    \E skipParts \in BOOLEAN, skipField \in BOOLEAN :
        /\ Setup(skipParts, skipField)
        /\ cfg.skipOrder \/ skipParts \/ skipField

----------------------------------------------------------------------------
(* The call stack *)

Frame(t, s, d) ==
    [ type |-> t, src |-> s, darg |-> d, dest |-> None, ck |-> NoKey,
      pc |-> "start", i |-> 1, used |-> {}, dkeys |-> << >>, ditem |-> None ]

Top == stack[Len(stack)]

SetTop(f) == [stack EXCEPT ![Len(stack)] = f]

Pop == SubSeq(stack, 1, Len(stack) - 1)

Running == status = "running" /\ stack # << >>

\* The record kept in last by the step named op of the top invocation.
Did(op) == [op |-> op, src |-> Top.src, darg |-> Top.darg]

\* Leaving the top invocation with value v.
ReturnFrom(v) ==
    /\ stack' = Pop
    /\ retval' = v
    /\ produced' = produced \cup { <<Top.src, v>> }
    /\ status' = IF Len(stack) = 1 THEN "done" ELSE status

\* Entering a serializer from the frame caller (already advanced to its return
\* point): a new Python frame, or RecursionError when the stack is exhausted.
Call(caller, t, s, d) ==
    IF Len(stack) >= MaxDepth
    THEN /\ status' = "RecursionError"
         /\ stack' = SetTop(caller)
    ELSE /\ status' = status
         /\ stack' = Append(SetTop(caller), Frame(t, s, d))

----------------------------------------------------------------------------
(* The caller *)

\* The user code calls serialize_Order_<src>_to_<dst>( source, destination, cache)
\* with an empty cache.
CallTop ==
    /\ status = "idle"
    /\ \E s \in {None, RootOrder}, d \in {None} \cup (DOMAIN dst \cap {1}) :
         stack' = <<Frame("Order", s, d)>>
    /\ status' = "running"
    /\ last' = [op |-> "CallTop", src |-> None, darg |-> None]
    /\ UNCHANGED <<parked, gen, trip, cfg, src, dst, cache, retval, produced>>

----------------------------------------------------------------------------
(* The generated serializer: prototype and caching *)

CacheBase(t) == make_cache_base_name(cfg.impl, cfg.srcRep, cfg.dstRep, t)

\* cache_key of the source of the top invocation.
TopKey == cache_key(cfg.impl, cfg.srcRep, CacheBase(Top.type), Top.src, src[Top.src])

\* The prototype returning the destination it was given: "return destination".
null_source_result_destination(destination) == destination

\* The value of "return None" in the prototype of every serializer.
null_source_result(destination) == None

\* "if source is None: return None"
NullSource ==
    /\ Running
    /\ Top.pc = "start"
    /\ Top.src = None
    /\ ReturnFrom(null_source_result(Top.darg))
    /\ last' = Did("NullSource")
    /\ UNCHANGED <<parked, gen, trip, cfg, src, dst, cache>>

\* "if (cache_key is not None) and (cache_key in cache): return cache[cache_key]"
CacheLookupHit ==
    /\ Running
    /\ Top.pc = "start"
    /\ Top.src # None
    /\ cache_hit(TopKey, cache)
    /\ ReturnFrom(cache[TopKey])
    /\ last' = Did("CacheLookupHit")
    /\ UNCHANGED <<parked, gen, trip, cfg, src, dst, cache>>

CacheLookupMiss ==
    /\ Running
    /\ Top.pc = "start"
    /\ Top.src # None
    /\ ~cache_hit(TopKey, cache)
    /\ stack' = SetTop([Top EXCEPT !.ck = TopKey, !.pc = "create"])
    /\ last' = Did("CacheLookupMiss")
    /\ UNCHANGED <<parked, gen, trip, cfg, src, dst, cache, retval, status, produced>>

----------------------------------------------------------------------------
(* Instance management, fields, instance check *)

\* The key tuple handed to gen_create_instance: the key values of the source.
CreateKeyTuple(n) == src[n].key

\* _sqla_session_add( session, klass, kt) of pyxfer: the instance of the
\* identity map when there is one, else klass().  0 stands for "construct".
sqla_session_add(heap, t, kt) ==
    IF IdentityMap(heap, t, kt) # {}
    THEN CHOOSE d \in IdentityMap(heap, t, kt) : TRUE
    ELSE None

\* Which existing instance instance_mgmt reuses instead of constructing one.
create_lookup(impl, dstRep, heap, t, kt) ==
    IF impl = "pyxfer" /\ dstRep = "sqla" THEN sqla_session_add(heap, t, kt) ELSE None

\* Serializer.instance_mgmt: "dest = destination", or a created instance when
\* no destination was passed.
instance_mgmt ==
    /\ Running
    /\ Top.pc = "create"
    /\ LET found == create_lookup(cfg.impl, cfg.dstRep, dst, Top.type, CreateKeyTuple(Top.src))
       IN  IF Top.darg # None
           THEN /\ stack' = SetTop([Top EXCEPT !.dest = Top.darg, !.pc = "keys"])
                /\ dst' = dst
           ELSE IF found # None
           THEN /\ stack' = SetTop([Top EXCEPT !.dest = found, !.pc = "keys"])
                /\ dst' = dst
           ELSE /\ stack' = SetTop([Top EXCEPT !.dest = Len(dst) + 1, !.pc = "keys"])
                /\ dst' = Append(dst, NewInst(Top.type))
    /\ last' = Did("instance_mgmt")
    /\ UNCHANGED <<parked, gen, trip, cfg, src, cache, retval, status, produced>>

\* A walker that takes no directive for SKIP.
is_skip_never(directive) == FALSE

\* "fields_control[name] == SKIP": '# Skipped field', '# Skipped single
\* relation', '# Skipped relation' is all that walk emits for the name.
is_skip(directive) == directive

\* Is the entry read by "source['<field>']" missing from the source dict ?
\* A short dict of pyxfer holds '__PYXPTR' only, one of montgomery holds the
\* key fields only.
key_field_missing(impl, rec) == rec.ref /\ impl = "pyxfer"
field_missing(rec) == rec.ref

\* A generator that emits no copy of the key fields at this point.
copy_key_fields_not_emitted ==
    /\ Running
    /\ Top.pc = "keys"
    /\ stack' = SetTop([Top EXCEPT !.pc = "fields"])
    /\ last' = Did("copy_key_fields")
    /\ UNCHANGED <<parked, gen, trip, cfg, src, dst, cache, retval, status, produced>>

\* _field_copy over the key fields of the walked type.
copy_key_fields ==
    /\ Running
    /\ Top.pc = "keys"
    /\ IF key_field_missing(cfg.impl, src[Top.src])
       THEN /\ status' = "KeyError"
            /\ UNCHANGED <<dst, stack>>
       ELSE /\ dst' = [dst EXCEPT ![Top.dest][KeyAttr(Top.type)] = src[Top.src].key]
            /\ stack' = SetTop([Top EXCEPT !.pc = "fields"])
            /\ status' = status
    /\ last' = Did("copy_key_fields")
    /\ UNCHANGED <<parked, gen, trip, cfg, src, cache, retval, produced>>

\* _field_copy over the non-key fields.
copy_fields ==
    /\ Running
    /\ Top.pc = "fields"
    /\ IF is_skip(cfg.skipField)
       THEN /\ dst' = dst
            /\ stack' = SetTop([Top EXCEPT !.pc = "check"])
            /\ status' = status
       ELSE IF field_missing(src[Top.src])
       THEN /\ status' = "KeyError"
            /\ UNCHANGED <<dst, stack>>
       ELSE /\ dst' = [dst EXCEPT ![Top.dest][FieldAttr(Top.type)] = src[Top.src].f]
            /\ stack' = SetTop([Top EXCEPT !.pc = "check"])
            /\ status' = status
    /\ last' = Did("copy_fields")
    /\ UNCHANGED <<parked, gen, trip, cfg, src, cache, retval, produced>>

\* An instance check that emits no merge.
merge_needed_never(impl, inst) == FALSE

\* Does the generated instance check call session.merge( dest) ?
\* pyxfer: "if dest not in session"; montgomery: always.
merge_needed(impl, inst) == IF impl = "pyxfer" THEN ~inst.insess ELSE TRUE

\* session.merge( x) of SQLAlchemy, on the heap: <<new heap, returned instance>>.
\* An instance of the session is returned as it is; the state of any other one
\* is copied onto the persistent instance with its primary key, or onto a new
\* pending instance; an attribute that was never set is not copied.
session_merge(heap, x) ==
    LET inst == heap[x]
        t == inst.type
        k == inst[KeyAttr(t)]
        same == IF k = None THEN {} ELSE IdentityMap(heap, t, k)
    IN  IF inst.insess THEN <<heap, x>>
        ELSE IF same # {}
        THEN LET p == CHOOSE d \in same : TRUE
             IN  << [heap EXCEPT ![p][KeyAttr(t)] = k,
                                 ![p][FieldAttr(t)] = IF inst[FieldAttr(t)] = None
                                                      THEN @
                                                      ELSE inst[FieldAttr(t)]], p >>
        ELSE << Append(heap, [inst EXCEPT !.insess = TRUE]), Len(heap) + 1 >>

\* dest_type_support.check_instance_serializer( serializer, "dest")
check_instance_serializer ==
    /\ Running
    /\ Top.pc = "check"
    /\ IF cfg.dstRep = "sqla" /\ merge_needed(cfg.impl, dst[Top.dest])
       THEN LET m == session_merge(dst, Top.dest)
            IN  /\ dst' = m[1]
                /\ stack' = SetTop([Top EXCEPT !.dest = m[2], !.pc = "cache"])
       ELSE /\ dst' = dst
            /\ stack' = SetTop([Top EXCEPT !.pc = "cache"])
    /\ last' = Did("check_instance_serializer")
    /\ UNCHANGED <<parked, gen, trip, cfg, src, cache, retval, status, produced>>

----------------------------------------------------------------------------
(* Cache registration *)

\* The short dict a SQLADictTypeSupport destination registers in the cache in
\* place of the destination: pyxfer { '__PYXPTR' : key or id(source) },
\* montgomery { key field : key value }.
ShortDict(impl, t, n) ==
    IF impl = "pyxfer"
    THEN [NewInst(t) EXCEPT !.kind = "ref",
                            !.PYXPTR = IF src[n].key # None THEN src[n].key
                                                            ELSE IdToken(n)]
    ELSE [NewInst(t) EXCEPT !.kind = "ref", ![KeyAttr(t)] = src[n].key]

\* cache_on_write registering the destination in both generators.
cache_on_write_mode_unguarded(impl, dstRep) ==
    IF dstRep = "dict" THEN "short" ELSE "dest"

\* What cache_on_write stores: "dest" (the destination itself), "short" (a
\* short dict standing for it) or "nothing" (montgomery's default: pass).
cache_on_write_mode(impl, dstRep) ==
    IF dstRep = "dict" THEN "short"
    ELSE IF impl = "pyxfer" THEN "dest" ELSE "nothing"

\* dest_type_support.cache_on_write( serializer, source_type_support, "source",
\*                                   cache_base_name, "dest")
cache_on_write ==
    /\ Running
    /\ Top.pc = "cache"
    /\ LET mode == cache_on_write_mode(cfg.impl, cfg.dstRep)
           n == Top.src
       IN  CASE mode = "dest" ->
                  /\ cache' = (Top.ck :> Top.dest) @@ cache
                  /\ dst' = dst
             [] mode = "short" ->
                  /\ cache' = (Top.ck :> (Len(dst) + 1)) @@ cache
                  /\ dst' = Append(
                       IF cfg.impl = "pyxfer" /\ src[n].key = None
                       THEN [dst EXCEPT ![Top.dest].PYXID = IdToken(n)]
                       ELSE dst,
                       ShortDict(cfg.impl, Top.type, n))
             [] mode = "nothing" ->
                  /\ cache' = cache
                  /\ dst' = dst
    /\ stack' = SetTop([Top EXCEPT !.pc = "single"])
    /\ last' = Did("cache_on_write")
    /\ UNCHANGED <<parked, gen, trip, cfg, src, retval, status, produced>>

----------------------------------------------------------------------------
(* Single relation OrderPart.order *)

\* A generator that emits the call without the test of presence.
is_single_relation_present_always(rec) == TRUE

\* gen_is_single_relation_present: the attribute is truthy / the dict entry
\* exists and is not None.
is_single_relation_present(rec) == rec.order # None

\* Does the walked type have a delegated single relation ?
HasSingle(t) == t = "OrderPart" /\ ~is_skip(cfg.skipOrder)

\* "if (<present>): dest.order = serialize_Order_...( source.order, None, cache)"
single_relation_call ==
    /\ Running
    /\ Top.pc = "single"
    /\ HasSingle(Top.type)
    /\ is_single_relation_present(src[Top.src])
    /\ Call([Top EXCEPT !.pc = "single_ret"], "Order", src[Top.src].order, None)
    /\ last' = Did("single_relation_call")
    /\ UNCHANGED <<parked, gen, trip, cfg, src, dst, cache, retval, produced>>

\* The relation is skipped by the fields control, or absent in the source.
single_relation_skip ==
    /\ Running
    /\ Top.pc = "single"
    /\ ~(HasSingle(Top.type) /\ is_single_relation_present(src[Top.src]))
    /\ stack' = SetTop([Top EXCEPT !.pc = "coll"])
    /\ last' = Did("single_relation_skip")
    /\ UNCHANGED <<parked, gen, trip, cfg, src, dst, cache, retval, status, produced>>

\* The assignment of the child's result to dest.order.
single_relation_write ==
    /\ Running
    /\ Top.pc = "single_ret"
    /\ dst' = [dst EXCEPT ![Top.dest].order = retval]
    /\ stack' = SetTop([Top EXCEPT !.pc = "coll"])
    /\ last' = Did("single_relation_write")
    /\ UNCHANGED <<parked, gen, trip, cfg, src, cache, retval, status, produced>>

----------------------------------------------------------------------------
(* Collection relation Order.parts *)

\* Does the walked type have a delegated collection relation ?
HasCollection(t) == t = "Order" /\ ~is_skip(cfg.skipParts)

\* list.remove( x): drops the first occurrence of x.
RECURSIVE RemoveFirst(_, _)
RemoveFirst(s, x) ==
    IF s = <<>> THEN <<>>
    ELSE IF Head(s) = x THEN Tail(s)
    ELSE <<Head(s)>> \o RemoveFirst(Tail(s), x)

\* "for item in xs: relation.remove( item)" over a set xs of instances.
RECURSIVE RemoveEach(_, _)
RemoveEach(s, xs) ==
    IF xs = {} THEN s
    ELSE LET x == CHOOSE y \in xs : TRUE
         IN  RemoveEach(RemoveFirst(s, x), xs \ {x})

\* montgomery gen_merge_relation_sqla:
\* "dest_inst_keys = dict(); for item in dest.parts: dest_inst_keys[ (key)] = item"
\* (a later item with the same key replaces an earlier one).
RECURSIVE dest_inst_keys(_, _)
dest_inst_keys(heap, items) ==
    IF items = <<>> THEN << >>
    ELSE LET item == items[Len(items)]
         IN  (heap[item].order_part_id :> item)
                 @@ dest_inst_keys(heap, SubSeq(items, 1, Len(items) - 1))

\* relation_copy without the type supports that rebuild: every destination
\* is reconciled the way an SQLA one is.
relation_copy_mode_merge(impl, dstRep) ==
    IF impl = "pyxfer" THEN "merge_used" ELSE "merge_keys"

\* How relation_copy of the destination type support copies the relation:
\* "merge_used" (pyxfer gen_merge_relation_sqla), "merge_keys" (montgomery
\* gen_merge_relation_sqla), "rebuild" (clear()/[] then append each item).
relation_copy_mode(impl, dstRep) ==
    IF dstRep = "sqla"
    THEN (IF impl = "pyxfer" THEN "merge_used" ELSE "merge_keys")
    ELSE "rebuild"

\* The collection class relation_copy of SQLATypeSupport hands to
\* gen_merge_relation_sqla, "unrecognized" when it raises instead.
\*   pyxfer:     dest_ts.field_collection_type( relation_name), which raises
\*               for a class that is neither set nor list nor None
\*   montgomery: "if a.collection_class == set: set  else: list"
field_collection_type(impl, collection_class) ==
    IF collection_class = "set" THEN "set"
    ELSE IF collection_class = "list" THEN "list"
    ELSE IF impl = "pyxfer" THEN "unrecognized"
    ELSE "list"

\* gen_merge_relation_sqla: the method of the destination relation that the
\* generated code calls with a new item.
add_item_method(collection_class) ==
    IF collection_class = "set" THEN "add" ELSE "append"

\* Does a container of the declared class have the method ?  A mapped
\* collection (a dict) has neither: the call raises AttributeError.
has_method(declared, method) ==
    \/ declared = "list" /\ method = "append"
    \/ declared = "set" /\ method = "add"

\* list.append( x), set.add( x) on the items of a container.
container_add(declared, items, x) ==
    IF declared = "set" /\ x \in Range(items) THEN items ELSE Append(items, x)

\* The method the serializers of cfg add a new item of 'parts' with.
AddMethod == add_item_method(field_collection_type(cfg.impl, cfg.collection_class))

\* Iterating a mapped collection gives its keys, which have no key field:
\* "dest_inst_keys[ (item.order_part_id)] = item" raises AttributeError.
items_have_key_fields(declared, items) == declared # "dict" \/ items = << >>

\* The code relation_copy emits before the loop over the source items.
relation_copy_begin ==
    /\ Running
    /\ Top.pc = "coll"
    /\ HasCollection(Top.type)
    /\ LET mode == relation_copy_mode(cfg.impl, cfg.dstRep)
       IN  CASE mode = "rebuild" ->
                  /\ dst' = [dst EXCEPT ![Top.dest].parts = <<>>]
                  /\ stack' = SetTop([Top EXCEPT !.pc = "loop", !.i = 1])
             [] mode = "merge_used" ->
                  /\ dst' = dst
                  /\ stack' = SetTop([Top EXCEPT !.pc = "loop", !.i = 1, !.used = {}])
             [] mode = "merge_keys" ->
                  /\ dst' = dst
                  /\ stack' = IF items_have_key_fields(cfg.collection_class, dst[Top.dest].parts)
                               THEN SetTop([Top EXCEPT !.pc = "loop", !.i = 1,
                                       !.dkeys = dest_inst_keys(dst, dst[Top.dest].parts)])
                               ELSE stack
    /\ status' = IF /\ relation_copy_mode(cfg.impl, cfg.dstRep) = "merge_keys"
                    /\ ~items_have_key_fields(cfg.collection_class, dst[Top.dest].parts)
                 THEN "AttributeError"
                 ELSE status
    /\ last' = Did("relation_copy_begin")
    /\ UNCHANGED <<parked, gen, trip, cfg, src, cache, retval, produced>>

\* The walked type has no collection relation, or the fields control skips it.
relation_copy_none ==
    /\ Running
    /\ Top.pc = "coll"
    /\ ~HasCollection(Top.type)
    /\ stack' = SetTop([Top EXCEPT !.pc = "ret"])
    /\ last' = Did("relation_copy_none")
    /\ UNCHANGED <<parked, gen, trip, cfg, src, dst, cache, retval, status, produced>>

\* pyxfer gen_merge_relation_sqla: "rck = <cache key of item>" computed by the
\* type support of the items with the cache base name handed to relation_copy,
\* which is the one of the walked (parent) type.
rck(impl, srcRep, parentBase, n, rec) == cache_key(impl, srcRep, parentBase, n, rec)

\* The destination handed to the serializer of an item of the relation.
\*   pyxfer:     "dest_item = cache.get( rck, None)"
\*   montgomery: "dest_inst_keys[key]" when "key in dest_inst_keys", else None
\*   rebuild:    None
item_destination(mode, f, item) ==
    CASE mode = "merge_used" ->
           LET k == rck(cfg.impl, cfg.srcRep, CacheBase(f.type), item, src[item])
           IN  IF k \in DOMAIN cache THEN cache[k] ELSE None
      [] mode = "merge_keys" ->
           IF src[item].key \in DOMAIN f.dkeys THEN f.dkeys[src[item].key] ELSE None
      [] mode = "rebuild" -> None

\* "for item in source.parts:" -- one more item: call its serializer.
relation_item_call ==
    /\ Running
    /\ Top.pc = "loop"
    /\ Top.i <= Len(src[Top.src].parts)
    /\ LET item == src[Top.src].parts[Top.i]
           d == item_destination(relation_copy_mode(cfg.impl, cfg.dstRep), Top, item)
       IN  Call([Top EXCEPT !.pc = "loop_ret", !.ditem = d], "OrderPart", item, d)
    /\ last' = Did("relation_item_call")
    /\ UNCHANGED <<parked, gen, trip, cfg, src, dst, cache, retval, produced>>

\* The rest of the loop body, once the serializer of the item returned.
relation_item_done ==
    /\ Running
    /\ Top.pc = "loop_ret"
    /\ LET mode == relation_copy_mode(cfg.impl, cfg.dstRep)
           item == src[Top.src].parts[Top.i]
           next == [Top EXCEPT !.pc = "loop", !.i = Top.i + 1, !.ditem = None]
       IN  CASE mode = "rebuild" ->
                  \* "dest.parts.append( <call>)"
                  /\ dst' = [dst EXCEPT ![Top.dest].parts = Append(@, retval)]
                  /\ stack' = SetTop(next)
             [] mode = "merge_used" ->
                  \* "if dest_item is None: dest.parts.append( dest_item2)"
                  \* "used.add( dest_item2)"
                  /\ dst' = IF Top.ditem = None /\ has_method(cfg.collection_class, AddMethod)
                            THEN [dst EXCEPT ![Top.dest].parts =
                                      container_add(cfg.collection_class, @, retval)]
                            ELSE dst
                  /\ stack' = IF Top.ditem = None /\ ~has_method(cfg.collection_class, AddMethod)
                               THEN stack
                               ELSE SetTop([next EXCEPT !.used = @ \cup {retval}])
             [] mode = "merge_keys" ->
                  IF Top.ditem # None
                  THEN \* "del dest_inst_keys[key]"
                       /\ dst' = dst
                       /\ stack' = SetTop([next EXCEPT !.dkeys =
                            [k \in DOMAIN Top.dkeys \ {src[item].key} |-> Top.dkeys[k]]])
                  ELSE IF has_method(cfg.collection_class, AddMethod)
                  THEN \* "session.add( s)" and "dest.parts.append( s)"
                       /\ dst' = [dst EXCEPT ![retval].insess = TRUE,
                                             ![Top.dest].parts =
                                                 container_add(cfg.collection_class, @, retval)]
                       /\ stack' = SetTop(next)
                  ELSE \* "session.add( s)", then the container has no such method
                       /\ dst' = [dst EXCEPT ![retval].insess = TRUE]
                       /\ stack' = stack
    /\ status' = IF /\ relation_copy_mode(cfg.impl, cfg.dstRep) # "rebuild"
                    /\ Top.ditem = None
                    /\ ~has_method(cfg.collection_class, AddMethod)
                 THEN "AttributeError"
                 ELSE status
    /\ last' = Did("relation_item_done")
    /\ UNCHANGED <<parked, gen, trip, cfg, src, cache, retval, produced>>

\* The code relation_copy emits after the loop: the removal of the items of the
\* destination relation that the loop did not touch.
relation_copy_end ==
    /\ Running
    /\ Top.pc = "loop"
    /\ Top.i > Len(src[Top.src].parts)
    /\ LET mode == relation_copy_mode(cfg.impl, cfg.dstRep)
           cur == dst[Top.dest].parts
       IN  CASE mode = "rebuild" -> dst' = dst
             [] mode = "merge_used" ->
                  \* "for item in set( dest.parts) - used: dest.parts.remove( item)"
                  dst' = [dst EXCEPT ![Top.dest].parts = RemoveEach(cur, Range(cur) \ Top.used)]
             [] mode = "merge_keys" ->
                  \* "for inst in dest_inst_keys.values(): dest.parts.remove( inst)"
                  dst' = [dst EXCEPT ![Top.dest].parts = RemoveEach(cur, Range(Top.dkeys))]
    /\ stack' = SetTop([Top EXCEPT !.pc = "ret"])
    /\ last' = Did("relation_copy_end")
    /\ UNCHANGED <<parked, gen, trip, cfg, src, cache, retval, status, produced>>

\* "return dest"
return_dest ==
    /\ Running
    /\ Top.pc = "ret"
    /\ ReturnFrom(Top.dest)
    /\ last' = Did("return_dest")
    /\ UNCHANGED <<parked, gen, trip, cfg, src, dst, cache>>

----------------------------------------------------------------------------
(* Specification *)

Next ==
    \/ CallTop
    \/ NullSource
    \/ CacheLookupHit
    \/ CacheLookupMiss
    \/ instance_mgmt
    \/ copy_key_fields
    \/ copy_fields
    \/ check_instance_serializer
    \/ cache_on_write
    \/ single_relation_call
    \/ single_relation_skip
    \/ single_relation_write
    \/ relation_copy_begin
    \/ relation_copy_none
    \/ relation_item_call
    \/ relation_item_done
    \/ relation_copy_end
    \/ return_dest

Spec == Init /\ [][Next]_vars

\* The same serializers generated from fields controls with SKIP.
Skipping == SkipInit /\ [][Next]_vars

----------------------------------------------------------------------------
(***************************************************************************)
(* Two top-level calls running concurrently.  A serializer takes its cache *)
(* as its last parameter and hands it to every serializer it calls         *)
(* ("f(source, destination, cache)"); the parameter hides the module-level *)
(* "cache = dict()" that montgomery generates.  Two threads whose callers  *)
(* pass a cache therefore share the source graph, the destination heap and *)
(* the session, and nothing else: each has its own stack of frames and its *)
(* own dict.  The thread that does not run is kept in 'parked'; a switch   *)
(* may happen between any two steps.                                       *)
(***************************************************************************)

\* The cache a serializer works on when its thread resumes, were it a
\* global of the generated module: the dict the other thread has filled.
passed_cache_global(own, running) == running

\* The cache a serializer works on when its thread resumes: the 'cache'
\* parameter of its frame, the dict of its own top-level call.
passed_cache(own, running) == own

ThreadSwitch ==
    /\ parked.status \in {"idle", "running"}
    /\ stack' = parked.stack
    /\ cache' = passed_cache(parked.cache, cache)
    /\ retval' = parked.retval
    /\ status' = parked.status
    /\ produced' = parked.produced
    /\ last' = parked.last
    /\ parked' = [ stack |-> stack, cache |-> cache, retval |-> retval,
                   status |-> status, produced |-> produced, last |-> last ]
    /\ UNCHANGED <<gen, trip, cfg, src, dst>>

\* The instances that exist before the calls: the caller may pass one of them
\* as the destination of both calls.
Existing(rep) == PreHeap(1, rep = "sqla")

\* Both calls transcode the same graph, so that they compute the same cache
\* keys.  Every instance that is not there at the start is created by one of
\* the calls.
ConcurrentInit ==
    /\ Setup(FALSE, FALSE)
    /\ ~cfg.skipOrder
    /\ src[RootOrder].key = 1
    /\ src[RootOrder].parts \in {<< >>, <<2>>}
    /\ \A n \in Range(src[RootOrder].parts) :
         src[n].key = 1 /\ src[n].order \in {None, RootOrder}
    /\ dst = Existing(cfg.dstRep)

ConcurrentNext == Next \/ ThreadSwitch

Concurrent == ConcurrentInit /\ [][ConcurrentNext]_vars

----------------------------------------------------------------------------
(* Round trip: the result of a call is the source of the reverse call *)

\* The distinct elements of a sequence, in the order of their first occurrence.
RECURSIVE Distinct(_)
Distinct(s) ==
    IF s = <<>> THEN <<>>
    ELSE LET d == Distinct(SubSeq(s, 1, Len(s) - 1))
         IN  IF s[Len(s)] \in Range(d) THEN d ELSE Append(d, s[Len(s)])

\* The key a marker '__PYXPTR' stands for: the key itself, or none when the
\* marker is an id().
KeyOfMarker(m) == IF m <= MaxKey THEN m ELSE None

\* The key of the item n of a source collection.
SourceItemKey(n) ==
    IF src[n].ref /\ src[n].PYXPTR # None THEN KeyOfMarker(src[n].PYXPTR)
    ELSE src[n].key

\* The key of the item d of a destination collection.
DestItemKey(d) ==
    IF dst[d].kind = "ref" /\ dst[d].PYXPTR # None THEN KeyOfMarker(dst[d].PYXPTR)
    ELSE dst[d][KeyAttr(dst[d].type)]

\* The destination instance h read as a source of the reverse serializer.
AsSource(impl, h, parts) ==
    [ type |-> h.type,
      key |-> IF h.kind = "ref" /\ impl = "pyxfer" THEN None ELSE h[KeyAttr(h.type)],
      f |-> h[FieldAttr(h.type)],
      order |-> None, parts |-> parts,
      PYXID |-> h.PYXID, PYXPTR |-> h.PYXPTR,
      ref |-> h.kind = "ref" ]

\* The user code hands the result of serialize_Order_<A>_to_<B> to
\* serialize_Order_<B>_to_<A>, with no destination, a fresh cache and a
\* session that holds nothing (test_happy, test_simple_creation).
Turnaround ==
    /\ status = "done"
    /\ trip.leg = 1
    /\ last.op = "return_dest"
    /\ last.src = RootOrder
    /\ <<cfg.dstRep, cfg.srcRep>> \in RepPairs
    /\ cfg.skipOrder \/ \A n \in Range(src[RootOrder].parts) : src[n].order = None
    /\ LET items == dst[retval].parts
           d == Distinct(items)
           node(x) == 1 + (CHOOSE i \in DOMAIN d : d[i] = x)
           root == AsSource(cfg.impl, dst[retval], [i \in DOMAIN items |-> node(items[i])])
       IN  /\ Len(d) <= MaxItems
           /\ src' = [ n \in SrcNodes |->
                         IF n = RootOrder THEN root
                         ELSE IF n = RefOrder THEN SrcRef(cfg.impl, root)
                         ELSE IF n - 1 \in DOMAIN d
                              THEN AsSource(cfg.impl, dst[d[n - 1]], <<>>)
                         ELSE SrcPart(n, None, None, FALSE) ]
    /\ trip' = [ leg |-> 2, key |-> src[RootOrder].key,
                 items |-> [i \in DOMAIN src[RootOrder].parts |->
                              SourceItemKey(src[RootOrder].parts[i])] ]
    /\ cfg' = [cfg EXCEPT !.srcRep = cfg.dstRep, !.dstRep = cfg.srcRep]
    /\ dst' = <<>>
    /\ cache' = << >>
    /\ stack' = << >>
    /\ retval' = None
    /\ status' = "idle"
    /\ produced' = {}
    /\ last' = [op |-> "Turnaround", src |-> None, darg |-> None]
    /\ UNCHANGED <<gen, parked>>

RoundTripNext == Next \/ Turnaround

RoundTrip == Init /\ [][RoundTripNext]_vars

\* The interpreter runs the call to its end: every enabled step is taken.
FairSpec == Spec /\ WF_vars(Next)

----------------------------------------------------------------------------
(* Synthesis: the mapped schema, fields controls, SQLAWalker.walk *)

\* How many calls (walk, make_serializers, reverse) a behaviour makes.
MaxCalls == 2

\* SKIP = "!skip"; a fields control is SKIP, a Serializer (of a mapper, in a
\* series), or something else (here an instance of CodeWriter itself).
SKIP == [d |-> "!skip", t |-> "", n |-> ""]
CODE == [d |-> "CodeWriter", t |-> "", n |-> ""]
SerializerOf(t, name) == [d |-> "Serializer", t |-> t, n |-> name]

\* "serializer_name : str = None", "series_name = None".
NoName == "None"

\* The mappers of the tests.
Mappers == {"Operation", "Order", "OrderPart"}

\* sqla_attribute_analysis: the column properties of a mapper.
fields_names(t) ==
    CASE t = "Operation" -> {"operation_id", "name"}
      [] t = "Order"     -> {"order_id", "start_date", "cost"}
      [] t = "OrderPart" -> {"order_part_id", "order_id", "name", "operation_id"}

\* sqla_attribute_analysis: relationships with uselist, in mapper order.
rnames(t) == IF t = "Order" THEN <<"parts">> ELSE <<>>

\* sqla_attribute_analysis: relationships without uselist, in mapper order
\* ('order' is the backref of Order.parts; first tells which one the mapper
\* lists first).
single_rnames(t, first) ==
    IF t # "OrderPart" THEN <<>>
    ELSE IF first = "order" THEN <<"order", "operation">> ELSE <<"operation", "order">>

\* merge_dicts( rnames, single_rnames): the collections, then the singles.
merge_dicts(x, y) == x \o y

\* inspect(relation).mapper.class_
relation_target(t, r) ==
    CASE r = "parts"     -> "OrderPart"
      [] r = "order"     -> "Order"
      [] r = "operation" -> "Operation"

\* An error raised to the caller: its kind, and the type, the name and the
\* target type its message names ("" when the message does not name one);
\* for the scheduler, the entries of dbg_missing_deps.
Raise(kind, t, n, y, deps) ==
    [kind |-> kind, type |-> t, name |-> n, target |-> y, triples |-> deps]

NoError == Raise("none", "", "", "", {})

\* Serializer.func_name: "serialize_<base>_<source type>_to_<destination type>",
\* then "_<name>" "if self._name".
func_name(impl, base, srcRep, dstRep, name) ==
    <<"serialize", base, type_name(impl, srcRep, base), "to", type_name(impl, dstRep, base)>>
    \o (IF name \in {NoName, ""} THEN <<>> ELSE <<name>>)

\* The duplicate test of walk without its effect: nothing is ever a duplicate.
registered_never(fn, reg) == FALSE

\* "if serializer.func_name() in self.serializers:"
registered(fn, reg) == fn \in DOMAIN reg

\* The sanity test of walk on the entry name |-> d of the fields control: does
\* it raise ?  pyxfer lets an entry through when its value is a CodeWriter.
sanity_check(impl, t, first, name, d) ==
    /\ name \notin Range(rnames(t))
    /\ name \notin Range(single_rnames(t, first))
    /\ name \notin fields_names(t)
    /\ (impl = "pyxfer" => d.d # "CodeWriter")

\* The loop over single_rnames, for the relation r: what it raises.
single_relation_control(impl, t, fc, r) ==
    IF r \notin DOMAIN fc
    THEN IF impl = "pyxfer"
         THEN Raise("missing_directive", t, r, "", {})   \* "Don't know how to serialize {}.{}"
         ELSE Raise("KeyError", "", r, "", {})           \* fields_control[relation_name]
    ELSE IF fc[r] = SKIP \/ fc[r].d = "Serializer"
    THEN NoError
    ELSE Raise("AssertionError", "", "", "", {})         \* "Expected a relation serializer"

\* The loop that fills rel_to_walk, for the relation r: what it raises.
relation_control(t, fc, r) ==
    IF r \notin DOMAIN fc
    THEN Raise("missing_directive", t, r, "", {})
    ELSE IF fc[r] = SKIP \/ fc[r].d = "Serializer"
    THEN NoError
    ELSE Raise("bad_directive", t, r, "", {})            \* "but I don't understand it"

\* The first error of a sequence of loop bodies, NoError when none raises.
RECURSIVE FirstRaised(_)
FirstRaised(s) ==
    IF s = <<>> THEN NoError
    ELSE IF s[1] # NoError THEN s[1]
    ELSE FirstRaised(Tail(s))

\* SQLAWalker.walk( source_type_support, base_type, dest_type_support,
\* fields_control, serializer_name) on the registry reg (self.serializers):
\* the registry it leaves, what it raises, and the Serializer it returns.
\* The Serializer is registered before its body is generated.
walk(impl, first, reg, srcRep, dstRep, base, fc, name) ==
    LET fn == func_name(impl, base, srcRep, dstRep, name)
        serializer == [base |-> base, src |-> srcRep, dst |-> dstRep, name |-> name,
                       fc |-> fc, nth |-> Cardinality(DOMAIN reg) + 1]
        reg1 == (fn :> serializer) @@ reg
        unknown == { n \in DOMAIN fc : sanity_check(impl, base, first, n, fc[n]) }
        singles == single_rnames(base, first)
        body == FirstRaised(
                  [i \in DOMAIN singles |-> single_relation_control(impl, base, fc, singles[i])]
                  \o [i \in DOMAIN rnames(base) |-> relation_control(base, fc, rnames(base)[i])])
    IN  IF registered(fn, reg)
        THEN [reg |-> reg, err |-> Raise("duplicate", base, "", "", {}), ret |-> <<>>]
        ELSE IF unknown # {}
        THEN [reg |-> reg1,
              err |-> Raise("unknown_name", base, CHOOSE n \in unknown : TRUE, "", {}),
              ret |-> <<>>]
        ELSE IF body # NoError
        THEN [reg |-> reg1, err |-> body, ret |-> <<>>]
        ELSE [reg |-> reg1, err |-> NoError, ret |-> fn]

----------------------------------------------------------------------------
(* Synthesis: the schedulers *)

\* The three make_serializers of the repository: SQLAAutoGen of
\* pyxfer/pyxfer.py, SQLAAutoGen of pyxfer/sqla_autogen.py, CodeGenQuick of
\* montgomery/montgomery.py.
Schedulers == {"pyxfer", "autogen", "montgomery"}

\* The mappers of models_fc, a sequence of <<mapper, fields control>> in the
\* order of the dict.
Requested(models_fc) == { models_fc[i][1] : i \in DOMAIN models_fc }

\* "if relation_name in fields_control and fields_control[relation_name] == SKIP: continue"
skipped(fields_control, r) == r \in DOMAIN fields_control /\ fields_control[r] = SKIP

\* Is there a Serializer to call for the target y of a relation ?  Every
\* requested mapper has a place holder in serializers from the start;
\* pyxfer.py falls back on the default series of self._serializers, which
\* sqla_autogen.py never reaches ("if relation_target not in models_fc: raise").
\* A scheduler without place holders: a target is known once a default
\* series has been built for it.
target_built(sched, requested, done, y) == <<y, NoName>> \in done

target_known(sched, requested, done, y) ==
    CASE sched = "pyxfer"     -> y \in requested \/ <<y, NoName>> \in done
      [] sched = "autogen"    -> y \in requested
      [] sched = "montgomery" -> y \in requested

\* The entry appended to dbg_missing_deps: "X.r of type Y" (montgomery: "X.r").
missing_dep(sched, x, r, y) ==
    IF sched = "montgomery" THEN <<x, r, "">> ELSE <<x, r, y>>

\* Nothing is stored in the fields control: it goes to walk as the caller gave it.
delegate_nothing(requested, fields_control, t, first, series) == fields_control

\* "fc[relation_name] = serializers[ k]" (else self._serializers[ k_alternate])
\* for every relation that is not skipped.
delegate(requested, fields_control, t, first, series) ==
    LET rels == Range(merge_dicts(rnames(t), single_rnames(t, first)))
        auto == { r \in rels : ~skipped(fields_control, r) }
    IN  [ n \in DOMAIN fields_control \cup auto |->
            IF n \in auto
            THEN SerializerOf(relation_target(t, n),
                              IF relation_target(t, n) \in requested THEN series ELSE NoName)
            ELSE fields_control[n] ]

\* A scheduler that never looks for the Serializers of the targets.
unsatisfied_deps_none(sched, requested, done, t, first, fields_control) == <<>>

\* The relations of t, in order, for which no Serializer is known.
unsatisfied_deps(sched, requested, done, t, first, fields_control) ==
    SelectSeq(merge_dicts(rnames(t), single_rnames(t, first)),
              LAMBDA r : /\ ~skipped(fields_control, r)
                         /\ ~target_known(sched, requested, done, relation_target(t, r)))

\* One pass of "for base_type, fields_control in do_now.items()", from the
\* state st of the scheduler.
RECURSIVE scheduler_pass(_, _, _)
scheduler_pass(c, do_now, st) ==
    IF do_now = <<>> \/ st.err # NoError THEN st
    ELSE LET t == do_now[1][1]
             fields_control == do_now[1][2]
             deps == unsatisfied_deps(c.sched, c.requested, c.done, t, c.first, fields_control)
             w == walk(c.impl, c.first, st.reg, c.srcRep, c.dstRep, t,
                       delegate(c.requested, fields_control, t, c.first, c.series), c.series)
         IN  IF deps # <<>> /\ c.sched = "autogen"
             THEN [st EXCEPT !.err = Raise("unknown_target", t, deps[1], relation_target(t, deps[1]),
                                           {<<t, deps[1], relation_target(t, deps[1])>>})]
             ELSE IF deps # <<>>
             THEN scheduler_pass(c, Tail(do_now),
                      [st EXCEPT !.do_later = Append(@, do_now[1]),
                                 !.dbg_missing_deps = @ \cup
                                     { missing_dep(c.sched, t, r, relation_target(t, r)) : r \in Range(deps) }])
             ELSE IF w.err # NoError
             THEN [st EXCEPT !.reg = w.reg, !.err = w.err]
             ELSE scheduler_pass(c, Tail(do_now),
                      [st EXCEPT !.reg = w.reg, !.built = @ \cup {t}, !.serializers_made = TRUE])

\* "while do_now or do_later:" pass after pass, until everything is built or
\* a pass builds nothing.
RECURSIVE scheduler_loop(_, _, _)
scheduler_loop(c, do_now, st) ==
    IF do_now = <<>> THEN st
    ELSE LET p == scheduler_pass(c, do_now,
                      [st EXCEPT !.do_later = <<>>, !.dbg_missing_deps = {},
                                 !.serializers_made = FALSE, !.passes = @ + 1])
         IN  IF p.err # NoError THEN p
             ELSE IF ~p.serializers_made
             THEN [p EXCEPT !.err = Raise("unresolved", "", "", "", p.dbg_missing_deps)]
             ELSE scheduler_loop(c, p.do_later, p)

\* make_serializers( models_fc, series_name) of the scheduler sched.
make_serializers(sched, impl, first, reg, done, srcRep, dstRep, models_fc, series) ==
    scheduler_loop(
        [sched |-> sched, impl |-> impl, first |-> first, requested |-> Requested(models_fc),
         done |-> done, srcRep |-> srcRep, dstRep |-> dstRep, series |-> series],
        models_fc,
        [reg |-> reg, err |-> NoError, built |-> {}, do_later |-> <<>>,
         dbg_missing_deps |-> {}, serializers_made |-> FALSE, passes |-> 0])

----------------------------------------------------------------------------
(* Synthesis: the calls of the user code *)

\* The fields controls a caller hands to walk for the mapper t: for each
\* relation nothing, SKIP, a Serializer or a CodeWriter; and at most one more
\* entry: SKIP for the field 'name', or SKIP or a CodeWriter for 'nosuch',
\* which the mapper does not have.
WalkControls ==
    [ t \in Mappers |->
        LET rels == IF t = "Order" THEN {"parts"}
                    ELSE IF t = "OrderPart" THEN {"order", "operation"} ELSE {}
            options(n) == IF n \in rels
                          THEN {SKIP, CODE, SerializerOf(relation_target(t, n), NoName)}
                          ELSE IF n = "name" THEN {SKIP}
                          ELSE {SKIP, CODE}
            all == {SKIP, CODE} \cup { SerializerOf(y, NoName) : y \in Mappers }
        IN  UNION { { fc \in [D -> all] : \A n \in D : fc[n] \in options(n) } :
                    D \in { E \in SUBSET (rels \cup {"name", "nosuch"}) :
                               ~({"name", "nosuch"} \subseteq E) } } ]

\* The fields controls of test_autogen: SKIP on some relations, nothing else.
SchedulerControls ==
    [ t \in Mappers |->
        LET rels == IF t = "Order" THEN {"parts"}
                    ELSE IF t = "OrderPart" THEN {"order", "operation"} ELSE {}
        IN  UNION { [D -> {SKIP}] : D \in SUBSET rels } ]

\* The dicts models_fc: mappers in any order, each with its fields control.
ModelsFc ==
    LET pairs == UNION { { <<t, fc>> : fc \in SchedulerControls[t] } : t \in Mappers }
    IN  { m \in UNION { [1..n -> pairs] : n \in 0..Cardinality(Mappers) } :
            \A i, j \in DOMAIN m : i # j => m[i][1] # m[j][1] }

\* The record of the call made last.
Called(op, base, fc, name, models_fc, series, err, ret, built, passes) ==
    [op |-> op, base |-> base, fc |-> fc, name |-> name, models_fc |-> models_fc,
     series |-> series, err |-> err, ret |-> ret, built |-> built, passes |-> passes]

\* A walker with an empty registry, owned by a scheduler that has built
\* nothing yet, between SQLATypeSupport and SQLADictTypeSupport.
SynthesisInit ==
    /\ \E sched \in Schedulers, first \in {"order", "operation"} :
         /\ cfg = [ impl |-> IF sched = "montgomery" THEN "montgomery" ELSE "pyxfer",
                    srcRep |-> "sqla", dstRep |-> "dict", skipOrder |-> FALSE,
                    skipParts |-> FALSE, skipField |-> FALSE,
                    collection_class |-> "list" ]
         /\ gen = [ calls |-> 0, sched |-> sched, first |-> first,
                    reg |-> << >>, done |-> {},
                    out |-> Called("init", "", << >>, NoName, << >>, NoName, NoError, << >>, {}, 0) ]
    /\ src = [ n \in SrcNodes |-> SrcPart(n, None, None, FALSE) ]
    /\ dst = << >>
    /\ cache = << >>
    /\ stack = << >>
    /\ retval = None
    /\ status = "idle"
    /\ produced = {}
    /\ last = [op |-> "Init", src |-> None, darg |-> None]
    /\ trip = [leg |-> 1, key |-> None, items |-> <<>>]
    /\ parked = NoCall

\* The user code calls walker.walk( None, base, None, fields_control, name).
WalkCall ==
    /\ gen.calls < MaxCalls
    /\ \E base \in Mappers, name \in {NoName, "s1"} :
         \E fc \in WalkControls[base] :
           LET w == walk(cfg.impl, gen.first, gen.reg, cfg.srcRep, cfg.dstRep, base, fc, name)
           IN  gen' = [gen EXCEPT !.calls = @ + 1,
                                  !.reg = w.reg,
                                  !.out = Called("walk", base, fc, name, << >>, NoName,
                                                 w.err, w.ret, {}, 0)]
    /\ UNCHANGED <<cfg, src, dst, cache, stack, retval, status, produced, last, trip, parked>>

\* The user code calls make_serializers( models_fc, series_name) (CodeGenQuick
\* has no series).  The walker's registry keeps what was walked before an
\* exception; self._serializers is updated when the call returns.
MakeSerializersCall ==
    /\ gen.calls < MaxCalls
    /\ \E models_fc \in ModelsFc,
          series \in IF gen.sched = "montgomery" THEN {NoName} ELSE {NoName, "s1"} :
         LET s == make_serializers(gen.sched, cfg.impl, gen.first, gen.reg, gen.done,
                                   cfg.srcRep, cfg.dstRep, models_fc, series)
         IN  gen' = [gen EXCEPT
                       !.calls = @ + 1,
                       !.reg = s.reg,
                       !.done = IF s.err = NoError /\ gen.sched # "montgomery"
                                THEN @ \cup { <<t, series>> : t \in Requested(models_fc) }
                                ELSE @,
                       !.out = Called("make_serializers", "", << >>, NoName, models_fc, series,
                                      s.err, << >>, s.built, s.passes)]
    /\ UNCHANGED <<cfg, src, dst, cache, stack, retval, status, produced, last, trip, parked>>

\* SQLAAutoGen.reverse of sqla_autogen.py: the same walker now generates the
\* serializers of the other direction.
ReverseCall ==
    /\ gen.calls < MaxCalls
    /\ gen.sched = "autogen"
    /\ cfg' = [cfg EXCEPT !.srcRep = cfg.dstRep, !.dstRep = cfg.srcRep]
    /\ gen' = [gen EXCEPT !.calls = @ + 1,
                          !.out = Called("reverse", "", << >>, NoName, << >>, NoName,
                                         NoError, << >>, {}, 0)]
    /\ UNCHANGED <<src, dst, cache, stack, retval, status, produced, last, trip, parked>>

SynthesisNext == WalkCall \/ MakeSerializersCall \/ ReverseCall

Synthesis == SynthesisInit /\ [][SynthesisNext]_vars

----------------------------------------------------------------------------
(* Scheduling: make_serializers pass by pass *)

\* The state of the scheduler before its first pass.
NoPass(reg) ==
    [reg |-> reg, err |-> NoError, built |-> {}, do_later |-> <<>>,
     dbg_missing_deps |-> {}, serializers_made |-> FALSE, passes |-> 0]

\* The body of "while do_now or do_later:" without its last test: a pass that
\* builds nothing goes on to the next one.
while_body_without_raise(c, do_now, st) ==
    scheduler_pass(c, do_now,
        [st EXCEPT !.do_later = <<>>, !.dbg_missing_deps = {},
                   !.serializers_made = FALSE, !.passes = @ + 1])

\* The body of "while do_now or do_later:": one pass over do_now, then
\* "if not serializers_made: raise Exception(...)".
while_body(c, do_now, st) ==
    LET p == scheduler_pass(c, do_now,
                 [st EXCEPT !.do_later = <<>>, !.dbg_missing_deps = {},
                            !.serializers_made = FALSE, !.passes = @ + 1])
    IN  IF p.err = NoError /\ ~p.serializers_made
        THEN [p EXCEPT !.err = Raise("unresolved", "", "", "", p.dbg_missing_deps)]
        ELSE p

\* No call of make_serializers is under way.
NoRun ==
    [phase |-> "idle", models_fc |-> <<>>, series |-> NoName, reg |-> <<>>,
     do_now |-> <<>>, st |-> NoPass(<<>>)]

\* The walker and the scheduler of SynthesisInit, the scheduler idle.
SchedulingInit ==
    /\ \E sched \in Schedulers, first \in {"order", "operation"} :
         /\ cfg = [ impl |-> IF sched = "montgomery" THEN "montgomery" ELSE "pyxfer",
                    srcRep |-> "sqla", dstRep |-> "dict", skipOrder |-> FALSE,
                    skipParts |-> FALSE, skipField |-> FALSE,
                    collection_class |-> "list" ]
         /\ gen = [ calls |-> 0, sched |-> sched, first |-> first,
                    reg |-> << >>, done |-> {},
                    out |-> Called("init", "", << >>, NoName, << >>, NoName, NoError, << >>, {}, 0),
                    run |-> NoRun ]
    /\ src = [ n \in SrcNodes |-> SrcPart(n, None, None, FALSE) ]
    /\ dst = << >>
    /\ cache = << >>
    /\ stack = << >>
    /\ retval = None
    /\ status = "idle"
    /\ produced = {}
    /\ last = [op |-> "Init", src |-> None, darg |-> None]
    /\ trip = [leg |-> 1, key |-> None, items |-> <<>>]
    /\ parked = NoCall

\* The parameters of the call under way.
RunContext ==
    [sched |-> gen.sched, impl |-> cfg.impl, first |-> gen.first,
     requested |-> Requested(gen.run.models_fc), done |-> gen.done,
     srcRep |-> cfg.srcRep, dstRep |-> cfg.dstRep, series |-> gen.run.series]

\* make_serializers is called: place holders, "do_now = dict(models_fc)".
make_serializers_begin ==
    /\ gen.calls < MaxCalls
    /\ gen.run.phase # "looping"
    /\ \E models_fc \in ModelsFc,
          series \in IF gen.sched = "montgomery" THEN {NoName} ELSE {NoName, "s1"} :
         gen' = [gen EXCEPT !.calls = @ + 1,
                            !.run = [phase |-> "looping", models_fc |-> models_fc,
                                     series |-> series, reg |-> gen.reg,
                                     do_now |-> models_fc, st |-> NoPass(gen.reg)]]
    /\ UNCHANGED <<cfg, src, dst, cache, stack, retval, status, produced, last, trip, parked>>

\* One iteration of "while do_now or do_later:": the exception leaves the
\* call, else "do_now = do_later".
make_serializers_pass ==
    /\ gen.run.phase = "looping"
    /\ gen.run.do_now # <<>>
    /\ \E p \in {while_body(RunContext, gen.run.do_now, gen.run.st)} :
           gen' = [gen EXCEPT
                     !.reg = p.reg,
                     !.run = [@ EXCEPT !.phase = IF p.err # NoError THEN "raised" ELSE @,
                                       !.do_now = p.do_later,
                                       !.st = p],
                     !.out = IF p.err # NoError
                             THEN Called("make_serializers", "", << >>, NoName,
                                         gen.run.models_fc, gen.run.series,
                                         p.err, << >>, p.built, p.passes)
                             ELSE @]
    /\ UNCHANGED <<cfg, src, dst, cache, stack, retval, status, produced, last, trip, parked>>

\* The loop is left: "self._serializers.update( serializers)", "return s".
make_serializers_return ==
    /\ gen.run.phase = "looping"
    /\ gen.run.do_now = <<>>
    /\ gen' = [gen EXCEPT
                 !.done = IF gen.sched # "montgomery"
                          THEN @ \cup { <<t, gen.run.series>> : t \in Requested(gen.run.models_fc) }
                          ELSE @,
                 !.run = [@ EXCEPT !.phase = "returned"],
                 !.out = Called("make_serializers", "", << >>, NoName,
                                gen.run.models_fc, gen.run.series,
                                NoError, << >>, gen.run.st.built, gen.run.st.passes)]
    /\ UNCHANGED <<cfg, src, dst, cache, stack, retval, status, produced, last, trip, parked>>

SchedulingNext ==
    make_serializers_begin \/ make_serializers_pass \/ make_serializers_return

Scheduling == SchedulingInit /\ [][SchedulingNext]_vars

\* ENABLED <<make_serializers_pass>>_vars: the loop has pairs to do (a pass
\* always changes the state, it counts itself in passes).
PassEnabled == gen.run.phase = "looping" /\ gen.run.do_now # <<>>

\* Synthesis is synchronous and single-threaded: a call under way goes on.
\* The first conjunct is WF_vars(make_serializers_pass) with its ENABLED
\* written as PassEnabled.
FairScheduling ==
    /\ Scheduling
    /\ (<>[]PassEnabled => []<><<make_serializers_pass>>_vars)
    /\ WF_vars(make_serializers_return)

----------------------------------------------------------------------------
(***************************************************************************)
(* Synthesis and run of the serializers of a schema whose relation 'parts' *)
(* is declared with a collection class.  walk hands the relation to        *)
(* relation_copy of the destination type support, which looks at the       *)
(* collection class while it generates the code.                           *)
(***************************************************************************)

\* What relation_copy of the destination type support raises while walk
\* generates the copy of Order.parts.  pyxfer: "Unrecognized collection type
\* '{}' for a relation {}.{}" with the collection class, the destination type
\* and the relation.  The raise of gen_merge_relation_sqla is out of reach in
\* both packages: it is never handed anything but list or set.
relation_copy_raises(impl, dstRep, collection_class) ==
    IF dstRep = "sqla" /\ field_collection_type(impl, collection_class) = "unrecognized"
    THEN Raise("collection", type_name(impl, dstRep, "Order"), "parts", "", {})
    ELSE NoError

\* SQLAWalker.walk over the schema: the serializers exist when it returns.
walk_relation_copy ==
    /\ status = "unwalked"
    /\ LET err == relation_copy_raises(cfg.impl, cfg.dstRep, cfg.collection_class)
       IN  /\ gen' = [calls |-> 1, err |-> err]
           /\ status' = IF err = NoError THEN "idle" ELSE "Exception"
    /\ last' = [op |-> "walk", src |-> None, darg |-> None]
    /\ UNCHANGED <<cfg, src, dst, cache, stack, retval, produced, trip, parked>>

ContainersInit ==
    \E collection_class \in CollectionClasses :
        /\ SetupWith(FALSE, FALSE, collection_class, FALSE)
        /\ cfg.dstRep = "sqla"

ContainersNext == walk_relation_copy \/ Next

Containers == ContainersInit /\ [][ContainersNext]_vars

----------------------------------------------------------------------------
(* Properties of the identity cache *)

\* The source graph has a reference cycle: a part of the root Order refers
\* back to it.
HasCycle == \E n \in Range(src[RootOrder].parts) : src[n].order = RootOrder

\* Every relation of the walked types is delegated to a serializer.
AllDelegated == ~cfg.skipOrder

\* C1: on a source graph with a reference cycle whose relations are all
\* delegated, a top-level call started with an empty cache terminates (it
\* does not recurse until the interpreter gives up) and returns a destination
\* instance.
C1_CyclicCallReturns ==
    (HasCycle /\ AllDelegated) =>
        /\ status # "RecursionError"
        /\ (status = "done" /\ last.src = RootOrder) => retval # None

\* The same statement for the pyxfer generator alone, whose default
\* cache_on_write registers the destination.
C1_PyxferCyclicCallReturns ==
    cfg.impl = "pyxfer" => C1_CyclicCallReturns

\* The places of the destination graph built by a finished top-level call,
\* each with the source instance it corresponds to: the returned root, the
\* items of a rebuilt parts collection (same positions as in the source) and
\* the order reference of every destination built for a part.
Places ==
    LET r == retval
        rebuilt == cfg.dstRep # "sqla" /\ dst[r].kind = "inst"
    IN  { <<RootOrder, r>> }
        \cup (IF rebuilt /\ Len(dst[r].parts) = Len(src[RootOrder].parts)
              THEN { <<src[RootOrder].parts[i], dst[r].parts[i]>> :
                       i \in DOMAIN dst[r].parts }
              ELSE {})
        \cup { <<src[pv[1]].order, dst[pv[2]].order>> :
                 pv \in { x \in produced :
                            /\ x[1] \in PartNodes /\ x[2] # None
                            /\ dst[x[2]].kind = "inst"
                            /\ AllDelegated
                            /\ src[x[1]].order # None } }

\* C2: within one top-level call every place of the produced destination
\* graph that corresponds to the same source instance holds the same
\* destination instance.
C2_OneDestinationPerSource ==
    (status = "done" /\ last.src = RootOrder) =>
        \A p, q \in Places : p[1] = q[1] => p[2] = q[2]

\* C3: the invocations of one transform on the same source instance with the
\* same cache all return the identical destination instance.
C3_SameSourceSameInstance ==
    \A x, y \in produced : (x[1] = y[1] /\ x[1] # None) => x[2] = y[2]

\* C4: when the cache key of the source is defined and already in the cache,
\* the invocation returns the cached value at once: no instance is created,
\* no field of any destination is written (the destination supplied by the
\* caller included), no child serializer is entered and the cache is left
\* as it was.
C4_CacheHitReturnsCached ==
    [][ ( /\ Running
          /\ Top.pc = "start"
          /\ Top.src # None
          /\ TopKey # NoKey
          /\ TopKey \in DOMAIN cache )
        => ( /\ stack' = Pop
             /\ retval' = cache[TopKey]
             /\ dst' = dst
             /\ cache' = cache ) ]_vars

\* A cache hit has just been served to an invocation that was given a
\* destination by its caller.
C4_Witness ==
    /\ last.op = "CacheLookupHit"
    /\ last.darg # None
    /\ retval # None

\* A child serializer has been entered from the invocation f.
ChildEntered(f) == f.pc \in {"single_ret", "loop_ret"}

\* C5: on a cache miss with a defined key, the new destination is registered
\* in the cache before the first child serializer is entered, so that a
\* re-entrant call for the same source hits the cache.
C5_RegisteredBeforeChildren ==
    \A i \in DOMAIN stack :
        (ChildEntered(stack[i]) /\ stack[i].ck # NoKey)
            => stack[i].ck \in DOMAIN cache

\* The same statement for the pyxfer generator alone.
C5_PyxferRegisteredBeforeChildren ==
    cfg.impl = "pyxfer" => C5_RegisteredBeforeChildren

Unkeyed(n) ==
    /\ cfg.srcRep = "dict"
    /\ src[n].key = None
    /\ src[n].PYXID = None
    /\ src[n].PYXPTR = None

\* C7: for a dict source whose key fields are unset and which carries neither
\* an ID marker nor a reference marker, the cache key is undefined; two
\* distinct such records of one type are never resolved to the same
\* destination instance in one call.
C7_UnkeyedDictHasNoKey ==
    /\ \A i \in DOMAIN stack :
          (stack[i].src # None /\ stack[i].pc # "start" /\ Unkeyed(stack[i].src))
              => stack[i].ck = NoKey
    /\ \A x, y \in produced :
          ( /\ x[1] # None /\ y[1] # None /\ x[1] # y[1]
            /\ src[x[1]].type = src[y[1]].type
            /\ Unkeyed(x[1]) /\ Unkeyed(y[1])
            /\ x[2] # None )
              => x[2] # y[2]

\* The same statement for the montgomery generator alone.
C7_MontgomeryUnkeyedDictHasNoKey ==
    cfg.impl = "montgomery" => C7_UnkeyedDictHasNoKey

\* C8: an invocation with an absent source returns None at once; the cache
\* is neither read nor written and no destination is created or modified,
\* even when the caller supplies a destination.
C8_NullSourceReturnsNone ==
    [][ (Running /\ Top.pc = "start" /\ Top.src = None)
        => ( /\ stack' = Pop
             /\ retval' = None
             /\ dst' = dst
             /\ cache' = cache ) ]_vars

\* A call with an absent source and a supplied destination has returned.
C8_Witness ==
    /\ last.op = "NullSource"
    /\ last.darg # None
    /\ status = "done"

----------------------------------------------------------------------------
(* Properties of the reconciliation of a collection *)

\* The keys of the items of a source collection / of a destination collection.
SourceKeys(items) == { src[n].key : n \in Range(items) }
DestKeys(items) == { dst[d].order_part_id : d \in Range(items) }

\* The invocation on top of the stack has just reconciled the parts of a
\* SQLA destination.
Reconciled ==
    /\ Running
    /\ cfg.dstRep = "sqla"
    /\ last.op = "relation_copy_end"
    /\ Top.pc = "ret"

\* C9: after the reconciliation of a destination collection against a source
\* collection, the keys of the destination items are exactly the keys of the
\* source items: items whose key the source lacks are removed, and no item
\* added or updated by the reconciliation is removed.
C9_KeySetsEqual ==
    Reconciled => DestKeys(dst[Top.dest].parts) = SourceKeys(src[Top.src].parts)

\* The same statement for the montgomery generator alone.
C9_MontgomeryKeySetsEqual ==
    cfg.impl = "montgomery" => C9_KeySetsEqual

\* The items of the destination collection dest whose key is the (set) key k.
Matching(dest, k) ==
    { d \in Range(dst[dest].parts) : k # None /\ dst[d].order_part_id = k }

\* C10: a source item whose key matches an existing destination item is
\* transcoded into that instance: the serializer of the item receives the
\* existing instance as its destination (it is updated in place, neither
\* replaced nor added a second time).
C10_MatchingItemUpdatedInPlace ==
    \A i \in DOMAIN stack :
        ( /\ i > 1
          /\ cfg.dstRep = "sqla"
          /\ stack[i].pc = "start"
          /\ stack[i - 1].pc = "loop_ret"
          /\ Matching(stack[i - 1].dest, src[stack[i].src].key) # {} )
        => stack[i].darg \in Matching(stack[i - 1].dest, src[stack[i].src].key)

\* The keys of the items of the source collection are pairwise distinct.
DistinctSourceKeys ==
    \A i, j \in DOMAIN src[RootOrder].parts :
        src[src[RootOrder].parts[i]].key = src[src[RootOrder].parts[j]].key => i = j

\* The same statement for the montgomery generator alone, on source
\* collections whose keys are pairwise distinct.
C10_MontgomeryMatchingItemUpdatedInPlace ==
    (cfg.impl = "montgomery" /\ DistinctSourceKeys) => C10_MatchingItemUpdatedInPlace

\* The serializer of the item at position f.i of the source collection of the
\* invocation f has returned; the item occurs there for the first time and no
\* item of the destination collection has its key (an unset key matches
\* nothing).
UnmatchedItemReturned(f) ==
    /\ cfg.dstRep = "sqla"
    /\ f.pc = "loop_ret"
    /\ \A j \in 1..(f.i - 1) : src[f.src].parts[j] # src[f.src].parts[f.i]
    /\ Matching(f.dest, src[src[f.src].parts[f.i]].key) = {}

\* C11: a source item with no matching destination item (its key unset
\* included) is transcoded into a destination instance of the item type that
\* the collection did not hold, and that instance is appended once: the
\* collection grows by exactly that item.
C11_UnmatchedItemAppendedOnce ==
    [][ (Running /\ UnmatchedItemReturned(Top))
        => ( /\ retval # None
             /\ dst[retval].type = "OrderPart"
             /\ retval \notin Range(dst[Top.dest].parts)
             /\ dst'[Top.dest].parts = Append(dst[Top.dest].parts, retval) ) ]_vars

\* The same statement for the montgomery generator alone.
C11_MontgomeryUnmatchedItemAppendedOnce ==
    [][ (cfg.impl = "montgomery" /\ Running /\ UnmatchedItemReturned(Top))
        => ( /\ retval # None
             /\ dst[retval].type = "OrderPart"
             /\ retval \notin Range(dst[Top.dest].parts)
             /\ dst'[Top.dest].parts = Append(dst[Top.dest].parts, retval) ) ]_vars

----------------------------------------------------------------------------
(* Properties of the flattened (dict) representation *)

\* The destination d is a full payload: a dict built by a serializer run.
FullPayload(d) == d # None /\ dst[d].kind = "inst"

\* The marker a short dict carries: '__PYXPTR', else the key field.
Marker(d) ==
    IF dst[d].PYXPTR # None THEN dst[d].PYXPTR ELSE dst[d][KeyAttr(dst[d].type)]

\* The destination d is a short reference payload: nothing but a marker that
\* identifies the entity.
ReferencePayload(d) ==
    /\ d # None
    /\ dst[d].kind = "ref"
    /\ Marker(d) # None
    /\ dst[d][FieldAttr(dst[d].type)] = None
    /\ dst[d].order = None
    /\ dst[d].parts = <<>>

\* A call on the root Order towards the dict representation has returned.
FlattenedDone ==
    /\ status = "done"
    /\ cfg.dstRep = "dict"
    /\ last.op = "return_dest"
    /\ last.src = RootOrder

\* C12: when a source entity is reached several times while transcoding to
\* the dict representation, its first occurrence is embedded as a full payload
\* and every later occurrence as a short reference payload carrying only a
\* marker that identifies it.
C12_FullThenReference ==
    FlattenedDone =>
        LET S == src[RootOrder].parts
            L == dst[retval].parts
        IN  /\ FullPayload(retval)
            /\ Len(L) = Len(S)
            /\ \A i \in DOMAIN S :
                  IF \A j \in 1..(i - 1) : S[j] # S[i]
                  THEN /\ FullPayload(L[i])
                       /\ (AllDelegated /\ src[S[i]].order = RootOrder)
                              => ReferencePayload(dst[L[i]].order)
                  ELSE ReferencePayload(L[i])

\* The same statement for the pyxfer generator alone.
C12_PyxferFullThenReference ==
    cfg.impl = "pyxfer" => C12_FullThenReference

\* The full dict that the short dict r of the source stands for.
FullOf(r) == IF r = RefOrder THEN RootOrder ELSE 2

\* The destination instances built so far for the source n.
DestOf(n) ==
    { x[2] : x \in { y \in produced : y[1] = n } }
        \cup { stack[i].dest : i \in { j \in DOMAIN stack : stack[j].src = n } }

\* C13: transcoding back from the dict representation, a short reference dict
\* is resolved through the cache to the destination instance already built
\* from its full dict: the invocation returns that instance at once, creates
\* no instance, and no missing entry of the short dict is ever read.
C13_ReferenceResolvedThroughCache ==
    [][ /\ status' # "KeyError"
        /\ ( (Running /\ Top.pc = "start" /\ Top.src # None /\ src[Top.src].ref)
             => ( /\ stack' = Pop
                  /\ dst' = dst
                  /\ retval' # None
                  /\ retval' \in DestOf(FullOf(Top.src)) ) ) ]_vars

\* The same statement for the pyxfer generator alone.
C13_PyxferReferenceResolvedThroughCache ==
    [][ cfg.impl = "pyxfer" =>
        /\ status' # "KeyError"
        /\ ( (Running /\ Top.pc = "start" /\ Top.src # None /\ src[Top.src].ref)
             => ( /\ stack' = Pop
                  /\ dst' = dst
                  /\ retval' # None
                  /\ retval' \in DestOf(FullOf(Top.src)) ) ) ]_vars

----------------------------------------------------------------------------
(* Round trip *)

\* The second leg has returned the Order built from the result of the first.
RoundTripDone ==
    /\ trip.leg = 2
    /\ status = "done"
    /\ last.op = "return_dest"
    /\ last.src = RootOrder

\* The second leg was called on the result of the first and failed.
RoundTripFailed ==
    /\ trip.leg = 2
    /\ status \in {"KeyError", "RecursionError"}
    /\ stack[1].src = RootOrder

\* The Order returned has the key and the item keys the round trip started from.
Reproduced ==
    /\ retval # None
    /\ dst[retval].order_id = trip.key
    /\ Len(dst[retval].parts) = Len(trip.items)
    /\ \A i \in DOMAIN trip.items :
         i \in DOMAIN dst[retval].parts => DestItemKey(dst[retval].parts[i]) = trip.items[i]

\* C14: a round trip A -> B -> A over an acyclic graph ends, and the Order it
\* returns has the key the original Order had, a 'parts' collection of the same
\* size, and items with the same keys in the same places.
C14_RoundTripReproduces ==
    /\ ~RoundTripFailed
    /\ RoundTripDone => Reproduced

\* C14 for the montgomery package only.
C14_MontgomeryRoundTripReproduces ==
    cfg.impl = "montgomery" => C14_RoundTripReproduces

\* C14 for the pyxfer package only.
C14_PyxferRoundTripReproduces ==
    cfg.impl = "pyxfer" => C14_RoundTripReproduces

----------------------------------------------------------------------------
(* Properties of synthesis *)

\* The relations of the mapper t.
Relations(t) == Range(merge_dicts(rnames(t), single_rnames(t, gen.first)))

\* The call made last was a walk that met no Serializer of the same name.
Walked == gen.out.op = "walk" /\ gen.out.err.kind # "duplicate"

\* The fields control of the walk made last is sound but for the relations it
\* leaves out: it names fields and relations only, and gives every relation
\* it names SKIP or a Serializer.
SoundButIncomplete ==
    /\ Walked
    /\ DOMAIN gen.out.fc \subseteq Relations(gen.out.base) \cup fields_names(gen.out.base)
    /\ \A r \in DOMAIN gen.out.fc \cap Relations(gen.out.base) :
         gen.out.fc[r] = SKIP \/ gen.out.fc[r].d = "Serializer"
    /\ Relations(gen.out.base) \ DOMAIN gen.out.fc # {}

\* C15: a walk of a mapper with a relation that its fields control leaves
\* out raises an error that names the mapper and a relation left out, and
\* returns no Serializer: the relation is never skipped silently.
C15_MissingDirectiveIsFatal ==
    SoundButIncomplete =>
        /\ gen.out.err.kind # "none"
        /\ gen.out.err.type = gen.out.base
        /\ gen.out.err.name \in Relations(gen.out.base) \ DOMAIN gen.out.fc
        /\ gen.out.ret = << >>

\* C15 for the pyxfer package only.
C15_PyxferMissingDirectiveIsFatal ==
    cfg.impl = "pyxfer" => C15_MissingDirectiveIsFatal

\* C15 without the name of the mapper in the error: the walk still fails,
\* names the relation and returns nothing, in both packages.
C15_MissingDirectiveFails ==
    SoundButIncomplete =>
        /\ gen.out.err.kind # "none"
        /\ gen.out.err.name \in Relations(gen.out.base) \ DOMAIN gen.out.fc
        /\ gen.out.ret = << >>

\* The names of the fields control of the walk made last that are neither a
\* field nor a relation of the walked mapper.
UnknownNames == DOMAIN gen.out.fc \ (Relations(gen.out.base) \cup fields_names(gen.out.base))

\* C17: a walk whose fields control names something that is neither a field,
\* a single relation nor a collection relation of the mapper raises an error
\* that names the mapper and the offending name.
C17_UnknownNameIsFatal ==
    (Walked /\ UnknownNames # {}) =>
        /\ gen.out.err.kind = "unknown_name"
        /\ gen.out.err.type = gen.out.base
        /\ gen.out.err.name \in UnknownNames

\* C17 for the montgomery package only.
C17_MontgomeryUnknownNameIsFatal ==
    cfg.impl = "montgomery" => C17_UnknownNameIsFatal

\* C17 for the unknown names whose fields control is not a CodeWriter.
C17_UnknownNameOfOtherControlIsFatal ==
    (Walked /\ \A n \in UnknownNames : gen.out.fc[n].d # "CodeWriter") => C17_UnknownNameIsFatal

\* The identity of a registered Serializer: the walked mapper, the source
\* and destination type supports, the optional name.
Identity(s) == <<s.base, s.src, s.dst, s.name>>

\* The step is a call of walk by the user code.
WalkStep == gen'.out.op = "walk" /\ gen'.calls = gen.calls + 1

\* C18: walking a second Serializer with the identity of a registered one
\* raises the duplicate error and leaves the registry as it was; whatever is
\* called, a registered Serializer stays registered unchanged and the registry
\* never holds two Serializers of one identity.
C18_DuplicateRegistrationIsFatal ==
    [][ /\ \A f \in DOMAIN gen.reg : f \in DOMAIN gen'.reg /\ gen'.reg[f] = gen.reg[f]
        /\ \A f, g \in DOMAIN gen'.reg :
              Identity(gen'.reg[f]) = Identity(gen'.reg[g]) => f = g
        /\ (/\ WalkStep
            /\ \E f \in DOMAIN gen.reg :
                  Identity(gen.reg[f]) =
                      <<gen'.out.base, cfg.srcRep, cfg.dstRep, gen'.out.name>>)
           => (gen'.out.err.kind = "duplicate" /\ gen'.out.ret = << >> /\ gen'.reg = gen.reg)
      ]_vars

\* A walk has just been refused as a duplicate of a registered Serializer.
C18_Witness ==
    /\ gen.out.op = "walk"
    /\ gen.out.err.kind = "duplicate"
    /\ func_name(cfg.impl, gen.out.base, cfg.srcRep, cfg.dstRep, gen.out.name) \in DOMAIN gen.reg

----------------------------------------------------------------------------
(* Properties of the schedulers *)

\* The step is a call of make_serializers.
Scheduled == gen'.out.op = "make_serializers" /\ gen'.calls = gen.calls + 1

\* The name of the Serializer that make_serializers builds for the mapper t.
ScheduledName(t, series) == func_name(cfg.impl, t, cfg.srcRep, cfg.dstRep, series)

\* The walker holds no Serializer yet under the names this call will register.
FreshNames(models_fc, series) ==
    \A t \in Requested(models_fc) : ScheduledName(t, series) \notin DOMAIN gen.reg

\* Every relation that the fields controls do not skip targets a requested mapper.
TargetsRequested(models_fc) ==
    \A i \in DOMAIN models_fc :
        \A r \in Relations(models_fc[i][1]) :
            skipped(models_fc[i][2], r) \/ relation_target(models_fc[i][1], r) \in Requested(models_fc)

\* The Serializer of the mapper t was walked with SKIP for the relations the
\* caller skipped and the Serializer of the target for every other relation.
Delegated(reg, requested, t, fields_control, series) ==
    /\ ScheduledName(t, series) \in DOMAIN reg
    /\ \A r \in Relations(t) :
         /\ r \in DOMAIN reg[ScheduledName(t, series)].fc
         /\ reg[ScheduledName(t, series)].fc[r] =
               IF skipped(fields_control, r) THEN SKIP
               ELSE SerializerOf(relation_target(t, r),
                                 IF relation_target(t, r) \in requested THEN series ELSE NoName)

\* C16: make_serializers hands to walk, for every relation the caller's
\* fields control does not mark SKIP (mentioned or not), the Serializer of the
\* relation's target, and SKIP for the others; and a call whose relations all
\* target requested mappers succeeds and builds every requested mapper, empty
\* fields controls included.
C16_UnmentionedRelationsDelegated ==
    [][ Scheduled =>
          LET m == gen'.out.models_fc
              series == gen'.out.series
          IN  /\ \A i \in DOMAIN m :
                    m[i][1] \in gen'.out.built =>
                        Delegated(gen'.reg, Requested(m), m[i][1], m[i][2], series)
              /\ (FreshNames(m, series) /\ TargetsRequested(m)) =>
                    /\ gen'.out.err = NoError
                    /\ gen'.out.built = Requested(m) ]_vars

\* A call that succeeded on a mapper with relations and an empty fields control.
C16_Witness ==
    /\ gen.out.op = "make_serializers"
    /\ gen.out.err = NoError
    /\ \E i \in DOMAIN gen.out.models_fc :
         /\ DOMAIN gen.out.models_fc[i][2] = {}
         /\ Relations(gen.out.models_fc[i][1]) # {}
         /\ gen.out.models_fc[i][1] \in gen.out.built

\* The triples (X, r, Y) of a request: X is requested, its relation r is not
\* skipped and targets Y, Y is not requested and the scheduler has built no
\* Serializer of the default series for Y.
Unresolved(models_fc) ==
    UNION { { <<models_fc[i][1], r, relation_target(models_fc[i][1], r)>> :
                r \in { q \in Relations(models_fc[i][1]) :
                          /\ ~skipped(models_fc[i][2], q)
                          /\ relation_target(models_fc[i][1], q) \notin Requested(models_fc)
                          /\ <<relation_target(models_fc[i][1], q), NoName>> \notin gen.done } } :
            i \in DOMAIN models_fc }

\* The call failed because of relations whose target has no Serializer.
SchedulingFailed(out) == out.err.kind \in {"unresolved", "unknown_target"}

\* C19: a request with an unresolved triple (X, r, Y) makes make_serializers
\* fail, at the latest at the end of the first pass that builds nothing, with
\* an error that reports unresolved triples of the request (the triple itself
\* when it is the only one); X is not built.
C19_UnsatisfiableScheduleFails ==
    [][ (Scheduled /\ FreshNames(gen'.out.models_fc, gen'.out.series)
                   /\ Unresolved(gen'.out.models_fc) # {}) =>
          /\ SchedulingFailed(gen'.out)
          /\ gen'.out.err.triples # {}
          /\ gen'.out.err.triples \subseteq Unresolved(gen'.out.models_fc)
          /\ \A x \in Unresolved(gen'.out.models_fc) : x[1] \notin gen'.out.built
          /\ gen'.out.passes <= (IF gen'.out.built = {} THEN 1 ELSE 2) ]_vars

\* C19 for SQLAAutoGen of pyxfer/pyxfer.py, and for SQLAAutoGen of
\* pyxfer/sqla_autogen.py as long as it has built no default series.
C19_PyxferUnsatisfiableScheduleFails ==
    [][ (gen.sched = "pyxfer" \/ (gen.sched = "autogen" /\ gen.done = {})) =>
          ((Scheduled /\ FreshNames(gen'.out.models_fc, gen'.out.series)
                      /\ Unresolved(gen'.out.models_fc) # {}) =>
             /\ SchedulingFailed(gen'.out)
             /\ gen'.out.err.triples # {}
             /\ gen'.out.err.triples \subseteq Unresolved(gen'.out.models_fc)
             /\ \A x \in Unresolved(gen'.out.models_fc) : x[1] \notin gen'.out.built
             /\ gen'.out.passes <= (IF gen'.out.built = {} THEN 1 ELSE 2)) ]_vars

\* C20: when make_serializers fails because of unresolved relations, its
\* error lists every unresolved triple of the request.
C20_EveryUnresolvedTripleReported ==
    [][ (Scheduled /\ SchedulingFailed(gen'.out)) =>
          gen'.out.err.triples = Unresolved(gen'.out.models_fc) ]_vars

\* C20 for SQLAAutoGen of pyxfer/pyxfer.py only.
C20_PyxferEveryUnresolvedTripleReported ==
    [][ (gen.sched = "pyxfer" /\ Scheduled /\ SchedulingFailed(gen'.out)) =>
          gen'.out.err.triples = Unresolved(gen'.out.models_fc) ]_vars

\* C20 for SQLAAutoGen of pyxfer/sqla_autogen.py only.
C20_AutogenEveryUnresolvedTripleReported ==
    [][ (gen.sched = "autogen" /\ Scheduled /\ SchedulingFailed(gen'.out)) =>
          gen'.out.err.triples = Unresolved(gen'.out.models_fc) ]_vars

\* The dicts that hold the pairs of models_fc, in every declaration order.
DeclarationOrders(models_fc) ==
    { m \in ModelsFc : Len(m) = Len(models_fc) /\ Range(m) = Range(models_fc) }

\* Order and OrderPart are both requested and delegate to each other:
\* Order.parts to OrderPart, OrderPart.order to Order.
Cycle(models_fc) ==
    \E i, j \in DOMAIN models_fc :
        /\ models_fc[i][1] = "Order" /\ ~skipped(models_fc[i][2], "parts")
        /\ models_fc[j][1] = "OrderPart" /\ ~skipped(models_fc[j][2], "order")

\* C21: a request that holds the two mappers of a cycle, and the target of
\* every other relation it does not skip, succeeds and builds both mappers of
\* the cycle; and the same pairs declared in any other order give the same
\* outcome: same error (none), same built mappers, same Serializers registered.
C21_CycleScheduledInAnyOrder ==
    [][ (Scheduled /\ Cycle(gen'.out.models_fc)
                   /\ FreshNames(gen'.out.models_fc, gen'.out.series)
                   /\ TargetsRequested(gen'.out.models_fc)) =>
          /\ gen'.out.err = NoError
          /\ {"Order", "OrderPart"} \subseteq gen'.out.built
          /\ \A p \in DeclarationOrders(gen'.out.models_fc) :
               LET s == make_serializers(gen.sched, cfg.impl, gen.first, gen.reg, gen.done,
                                         cfg.srcRep, cfg.dstRep, p, gen'.out.series)
               IN  /\ s.err = gen'.out.err
                   /\ s.built = gen'.out.built
                   /\ DOMAIN s.reg = DOMAIN gen'.reg ]_vars

\* A call that built the cycle with OrderPart declared before Order, and one
\* with Order declared first.
C21_Witness ==
    /\ gen.out.op = "make_serializers"
    /\ gen.out.err = NoError
    /\ Cycle(gen.out.models_fc)
    /\ {"Order", "OrderPart"} \subseteq gen.out.built
    /\ \E i, j \in DOMAIN gen.out.models_fc :
         /\ i < j
         /\ gen.out.models_fc[i][1] = "OrderPart"
         /\ gen.out.models_fc[j][1] = "Order"

----------------------------------------------------------------------------
(* Properties of the passes of the schedulers *)

\* A call of make_serializers is under way, has returned, has raised.
Looping == gen.run.phase = "looping"
Returned == gen.run.phase = "returned"
Raised == gen.run.phase = "raised"

\* The requested mappers that are not built yet.
NotBuilt(run) == Requested(run.models_fc) \ run.st.built

\* The step is a pass of the call under way.
PassStep == Looping /\ gen.run.do_now # <<>> /\ gen'.run.st.passes = gen.run.st.passes + 1

\* Pass by pass, make_serializers ends as the loop of scheduler_loop does.
PassesAgreeWithLoop ==
    (Returned \/ Raised) =>
        LET s == make_serializers(gen.sched, cfg.impl, gen.first, gen.run.reg,
                                  IF Returned /\ gen.sched # "montgomery"
                                  THEN gen.done \ { <<t, gen.run.series>> : t \in Requested(gen.run.models_fc) }
                                  ELSE gen.done,
                                  cfg.srcRep, cfg.dstRep, gen.run.models_fc, gen.run.series)
        IN  /\ s.err = gen.run.st.err
            /\ s.built = gen.run.st.built
            /\ s.passes = gen.run.st.passes
            /\ s.reg = gen.reg

\* C22: a call of make_serializers under way always ends, by returning or by
\* raising; when it returns nothing is left to do and every requested mapper
\* is built; and every pass that does not raise leaves strictly fewer
\* requested mappers not built.
C22_MakeSerializersTerminates ==
    /\ [](Looping => <>(Returned \/ Raised))
    /\ [](Returned => /\ gen.run.do_now = <<>>
                      /\ gen.run.st.do_later = <<>>
                      /\ gen.run.st.err = NoError
                      /\ NotBuilt(gen.run) = {})
    /\ [](Raised => gen.run.st.err # NoError)
    /\ [][ (PassStep /\ gen'.run.phase # "raised") =>
             /\ NotBuilt(gen'.run) \subseteq NotBuilt(gen.run)
             /\ Cardinality(NotBuilt(gen'.run)) < Cardinality(NotBuilt(gen.run)) ]_vars

\* A call that returned after building Order and OrderPart, and a call that
\* raised in its second pass, the first one having built a mapper.
C22_Witness ==
    \/ /\ Returned
       /\ {"Order", "OrderPart"} \subseteq gen.run.st.built
    \/ /\ Raised
       /\ gen.run.st.passes = 2
       /\ gen.run.st.built # {}

\* The fields control that the request under way gives for the mapper t.
ControlOf(models_fc, t) ==
    LET i == CHOOSE j \in DOMAIN models_fc : models_fc[j][1] = t
    IN  models_fc[i][2]

\* The targets of the relations of t that its fields control does not skip.
Targets(models_fc, t) ==
    { relation_target(t, r) : r \in { q \in Relations(t) : ~skipped(ControlOf(models_fc, t), q) } }

\* The Serializer of (y, series) was walked before the one of (t, series).
WalkedBefore(reg, y, t, series) ==
    /\ ScheduledName(y, series) \in DOMAIN reg
    /\ reg[ScheduledName(y, series)].nth < reg[ScheduledName(t, series)].nth

\* The mappers that the pass has built.
BuiltByPass == gen'.run.st.built \ gen.run.st.built

Available(models_fc, y) == y \in Requested(models_fc) \/ <<y, NoName>> \in gen.done

----------------------------------------------------------------------------
(* Properties of the series *)

\* The call blames the relation r of t: its error reports it.
Blamed(out, t, r) ==
    \E x \in out.err.triples : x[1] = t /\ x[2] = r

\* How the call of the step has resolved the relation r of the requested
\* mapper t towards the Serializer of (y, series): the relation is not blamed,
\* and the Serializer built for t delegates r to it.
ResolvedTo(t, r, y, series) ==
    /\ ~Blamed(gen'.out, t, r)
    /\ t \in gen'.out.built =>
          gen'.reg[ScheduledName(t, gen'.out.series)].fc[r] = SerializerOf(y, series)

\* The relation of the step's call is unresolved: the call fails for lack of
\* a Serializer and t is not built.
Unresolvable(t) ==
    /\ t \notin gen'.out.built
    /\ SchedulingFailed(gen'.out)

\* C27: in a call for the series s, a relation that is not skipped is
\* resolved to the Serializer of (target, s) when there is one (requested in
\* this call or built by an earlier one), else to the Serializer of the
\* default series (target, no series) when there is one, and is unresolved
\* when there is neither.
C27_SeriesThenDefault ==
    [][ (Scheduled /\ FreshNames(gen'.out.models_fc, gen'.out.series)) =>
          LET m == gen'.out.models_fc
              s == gen'.out.series
          IN  \A i \in DOMAIN m :
                 \A r \in Relations(m[i][1]) :
                    ~skipped(m[i][2], r) =>
                       LET t == m[i][1]
                           y == relation_target(t, r)
                       IN  IF y \in Requested(m) \/ <<y, s>> \in gen.done
                           THEN ResolvedTo(t, r, y, s)
                           ELSE IF <<y, NoName>> \in gen.done
                           THEN ResolvedTo(t, r, y, NoName)
                           ELSE Unresolvable(t) ]_vars

\* C27 for SQLAAutoGen of pyxfer/pyxfer.py, where the Serializer of
\* (target, s) counts only when the target is requested in the same call.
C27_PyxferSeriesThenDefault ==
    [][ (gen.sched = "pyxfer" /\ Scheduled
                              /\ FreshNames(gen'.out.models_fc, gen'.out.series)) =>
          LET m == gen'.out.models_fc
              s == gen'.out.series
          IN  \A i \in DOMAIN m :
                 \A r \in Relations(m[i][1]) :
                    ~skipped(m[i][2], r) =>
                       LET t == m[i][1]
                           y == relation_target(t, r)
                       IN  IF y \in Requested(m)
                           THEN ResolvedTo(t, r, y, s)
                           ELSE IF <<y, NoName>> \in gen.done
                           THEN ResolvedTo(t, r, y, NoName)
                           ELSE Unresolvable(t) ]_vars

\* C27 for SQLAAutoGen of pyxfer/sqla_autogen.py and CodeGenQuick, where a
\* target that is not requested in the same call is never resolved.
C27_AutogenRequestedOnly ==
    [][ (gen.sched # "pyxfer" /\ Scheduled
                              /\ FreshNames(gen'.out.models_fc, gen'.out.series)) =>
          LET m == gen'.out.models_fc
              s == gen'.out.series
          IN  \A i \in DOMAIN m :
                 \A r \in Relations(m[i][1]) :
                    ~skipped(m[i][2], r) =>
                       LET t == m[i][1]
                           y == relation_target(t, r)
                       IN  IF y \in Requested(m)
                           THEN t \in gen'.out.built =>
                                   gen'.reg[ScheduledName(t, s)].fc[r] = SerializerOf(y, s)
                           ELSE Unresolvable(t) ]_vars

----------------------------------------------------------------------------
(* Properties of the single relation *)

\* The step enters the serializer of the relation 'order' from the top
\* invocation (the Python stack is not exhausted).
SingleCallStep == last'.op = "single_relation_call" /\ Len(stack') = Len(stack) + 1

\* The step assigns the result of that serializer.
SingleWriteStep == last'.op = "single_relation_write"

\* The invocation entered by the step.
Entered == stack'[Len(stack')]

\* C28: the serializer of a delegated single relation that the source holds
\* is called with the related source instance and with the value that the
\* destination holds for the relation (None when it holds none), and what it
\* returns is written to the relation of the destination.
C28_ChildGetsExistingDestination ==
    [][ /\ SingleCallStep =>
              /\ src[Top.src].order # None
              /\ Entered.src = src[Top.src].order
              /\ Entered.darg = dst[Top.dest].order
        /\ SingleWriteStep => dst'[Top.dest].order = retval ]_vars

\* What both generators do: the related source instance goes with None as
\* destination, whatever the destination holds, and the result is written.
C28_ChildCalledWithoutDestination ==
    [][ /\ SingleCallStep =>
              /\ src[Top.src].order # None
              /\ Entered.src = src[Top.src].order
              /\ Entered.darg = None
        /\ SingleWriteStep => dst'[Top.dest].order = retval ]_vars

\* The step changes the relation 'order' of an instance of the destination.
OrderChanged == \E d \in DOMAIN dst : dst'[d].order # dst[d].order

----------------------------------------------------------------------------
(* Properties of the order of the generated code *)

\* The place of each part of the generated body in the order given by the
\* claim: instance, key fields, other fields, (instance check, cache), single
\* relations, collection relations, return.
Rank(pc) ==
    CASE pc = "start" -> 0
      [] pc = "create" -> 1
      [] pc = "keys" -> 2
      [] pc = "fields" -> 3
      [] pc = "check" -> 4
      [] pc = "cache" -> 5
      [] pc \in {"single", "single_ret"} -> 6
      [] pc \in {"coll", "loop", "loop_ret"} -> 7
      [] pc = "ret" -> 8

\* The destination of the top invocation holds the key of its source; its
\* field; its single relation when the source has one to delegate.
KeyWritten == dst[Top.dest][KeyAttr(Top.type)] = src[Top.src].key
FieldWritten == dst[Top.dest][FieldAttr(Top.type)] = src[Top.src].f
SingleWritten ==
    (HasSingle(Top.type) /\ src[Top.src].order # None) => dst[Top.dest].order # None

----------------------------------------------------------------------------
(* Properties of the creation of instances *)

\* The step is the creation of an instance for a SQLAlchemy destination: no
\* destination was passed to the invocation.
CreateStep == last'.op = "instance_mgmt" /\ cfg.dstRep = "sqla" /\ Top.darg = None

\* The instances that the identity map of the session holds under the key
\* values of the source of the top invocation.
Registered == IdentityMap(dst, Top.type, CreateKeyTuple(Top.src))

\* The creation returns an instance that was not on the heap.
Allocates ==
    /\ stack'[Len(stack')].dest \notin DOMAIN dst
    /\ dst' = Append(dst, NewInst(Top.type))

\* C24: the creation of an instance for a SQLAlchemy destination returns the
\* instance that the identity map holds under the key values when there is
\* one and allocates nothing; it allocates an instance otherwise, and never
\* for key values under which an earlier creation has left an instance.
C24_CreateInstanceUsesIdentityMap ==
    [][ CreateStep =>
          IF Registered # {}
          THEN /\ stack'[Len(stack')].dest \in Registered
               /\ dst' = dst
          ELSE /\ Allocates
               /\ CreateKeyTuple(Top.src) # None =>
                     \A d \in DOMAIN dst :
                         ~(/\ dst[d].type = Top.type
                           /\ dst[d].kind = "inst"
                           /\ dst[d][KeyAttr(Top.type)] = CreateKeyTuple(Top.src)) ]_vars

\* C24 for pyxfer, without the last point: _sqla_session_add returns the
\* instance of the identity map when there is one, else klass().
C24_PyxferCreateInstanceUsesIdentityMap ==
    [][ (cfg.impl = "pyxfer" /\ CreateStep) =>
          IF Registered # {}
          THEN /\ stack'[Len(stack')].dest \in Registered
               /\ dst' = dst
          ELSE Allocates ]_vars

\* montgomery: the creation always allocates.
C24_MontgomeryCreateInstanceAllocates ==
    [][ (cfg.impl = "montgomery" /\ CreateStep) => Allocates ]_vars

----------------------------------------------------------------------------
(* Properties of SKIP *)

\* The steps of the code generated for a single relation, for a collection.
SingleOps == {"single_relation_call", "single_relation_write"}
CollectionOps == {"relation_copy_begin", "relation_item_call", "relation_item_done",
                  "relation_copy_end"}

----------------------------------------------------------------------------
(***************************************************************************)
(* Properties of two concurrent top-level calls                            *)
(***************************************************************************)

\* The call that runs now, as a record like the parked one.
RunningCall == [ stack |-> stack, cache |-> cache, retval |-> retval,
             status |-> status, produced |-> produced, last |-> last ]

\* The instances a call holds that did not exist before the calls: among the
\* values of its cache, the destinations of its frames, what its frames
\* returned.
Private(call, heap) ==
    { v \in Range(call.cache)
            \cup { call.stack[i].dest : i \in DOMAIN call.stack }
            \cup { p[2] : p \in call.produced } :
        v \in DOMAIN heap \ DOMAIN Existing(cfg.dstRep) }

SwitchStep == parked' # parked

CacheHitStep == parked' = parked /\ last'.op = "CacheLookupHit"

\* C23: two top-level calls that are each given their own cache do not
\* interfere through the cache, whatever the interleaving of their steps: a
\* thread that resumes finds the cache it was passed as it left it and the
\* thread it preempts keeps its own, the two caches never hold the same
\* instance unless it existed before the calls, and a cache hit in one call
\* never returns an instance produced by the other call.
C23_OwnCachesDoNotInterfere ==
    /\ [](Private([RunningCall EXCEPT !.stack = << >>, !.produced = {}], dst)
            \cap Private([parked EXCEPT !.stack = << >>, !.produced = {}], dst) = {})
    /\ [][ /\ SwitchStep => (cache' = parked.cache /\ parked'.cache = cache)
           /\ ~SwitchStep => parked'.cache = parked.cache
           /\ CacheHitStep => retval' \notin Private(parked, dst) ]_vars

\* Both calls are under way on the same graph, both have filled their caches
\* under the same key, and the running one has just had a cache hit.
C23_Witness ==
    /\ last.op = "CacheLookupHit"
    /\ status = "running"
    /\ parked.status = "running"
    /\ retval \in DOMAIN dst
    /\ DOMAIN cache \cap DOMAIN parked.cache # {}
    /\ Private(parked, dst) # {}

----------------------------------------------------------------------------
(***************************************************************************)
(* Properties of the instance check                                        *)
(***************************************************************************)

\* What the instance check of the destination type support leaves: with a
\* SQLA destination the destination of the invocation is in the session.
Finalized(f) == cfg.dstRep = "sqla" => dst[f.dest].insess

RelationOps == {"single_relation_call", "single_relation_skip", "single_relation_write",
                "relation_copy_begin", "relation_copy_none", "relation_item_call",
                "relation_item_done", "relation_copy_end"}

\* C31: in an invocation that missed the cache the instance check (the
\* finalize hook of the destination) runs exactly once: it is the only step
\* that leaves its place in the body and no invocation comes back to that
\* place; it runs right after the copy of the fields, with the key and the
\* field of the source written; the cache registration is the step right
\* after it; the cache registration, every step of a relation and the return
\* find the destination finalized.
C31_FinalizeOnceAfterFieldsBeforeCache ==
    [][ /\ \A i \in DOMAIN stack \cap DOMAIN stack' :
             /\ (stack[i].pc = "check" /\ stack'[i].pc # "check") =>
                    (i = Len(stack) /\ last'.op = "check_instance_serializer")
             /\ (stack[i].pc # "check" /\ stack'[i].pc = "check") =>
                    (i = Len(stack) /\ last'.op = "copy_fields")
             /\ Rank(stack[i].pc) > Rank("check") => stack'[i].pc # "check"
        /\ last'.op = "check_instance_serializer" =>
             /\ Top.pc = "check"
             /\ last = Did("copy_fields")
             /\ KeyWritten /\ FieldWritten
             /\ stack'[Len(stack)].pc = "cache"
             /\ cfg.dstRep = "sqla" => dst'[stack'[Len(stack)].dest].insess
        /\ last'.op = "cache_on_write" =>
             /\ last = Did("check_instance_serializer")
             /\ Finalized(Top)
        /\ last'.op \in RelationOps \cup {"return_dest"} =>
             /\ Rank(Top.pc) > Rank("cache")
             /\ Finalized(Top) ]_vars

\* The instance check has just merged a new instance into the session: the
\* invocation goes on, to the cache registration, with the merged instance.
C31_Witness ==
    /\ Running
    /\ last = Did("check_instance_serializer")
    /\ Top.pc = "cache"
    /\ cfg.dstRep = "sqla"
    /\ Top.darg = None
    /\ dst[Top.dest].insess
    /\ ~dst[Top.dest].persistent
    /\ HasSingle(Top.type)

----------------------------------------------------------------------------
(***************************************************************************)
(* Properties of the collection classes                                    *)
(***************************************************************************)

\* The destination relation is declared with a class that is neither list
\* nor set.
Unrecognized == cfg.collection_class \notin {"list", "set"}

\* The code of a list-shaped relation is running, or has run, in an
\* invocation for the type that holds the relation.
HandledAsList ==
    \E i \in DOMAIN stack :
        stack[i].type = "Order" /\ stack[i].pc \in {"loop", "loop_ret", "ret"}

\* C32: a collection relation whose destination container is neither
\* list-shaped nor set-shaped is a fatal error of the invocation that names
\* both entity types: the generation does not raise, no invocation runs the
\* code of a list on the relation, and no invocation ends on an error that
\* names no type.
C32_UnrecognizedContainerIsFatal ==
    Unrecognized =>
        /\ status # "Exception"
        /\ status # "AttributeError"
        /\ ~HandledAsList

\* pyxfer raises while it generates the serializers, and names the
\* destination type and the relation, not the type of the items.
C32_PyxferRaisesAtGeneration ==
    (Unrecognized /\ cfg.impl = "pyxfer") =>
        /\ status \in {"unwalked", "Exception"}
        /\ status = "Exception" => gen.err = Raise("collection", "Order", "parts", "", {})

\* montgomery generates the code of a list: the invocation ends well when no
\* item has to be added and the container is empty, on AttributeError
\* otherwise.
C32_MontgomeryHandlesAsList ==
    (Unrecognized /\ cfg.impl = "montgomery") =>
        /\ status # "Exception"
        /\ AddMethod = "append"
        /\ status = "AttributeError" =>
               last.op \in {"relation_copy_begin", "relation_item_done"}
        /\ (status = "done" /\ retval # None) =>
               (src[RootOrder].parts = << >> /\ dst[retval].parts = << >>)

----------------------------------------------------------------------------
(***************************************************************************)
(* Properties of the surrogate marker                                      *)
(***************************************************************************)

\* The step is the first write of the source of the top invocation to the
\* dict representation; the short dict it leaves in the cache.
FirstWriteStep == cfg.dstRep = "dict" /\ last'.op = "cache_on_write"
Registered_short == dst'[cache'[Top.ck]]

\* The step returns the reference payload of a source written before.
LaterReferenceStep == cfg.dstRep = "dict" /\ last'.op = "CacheLookupHit"

\* C33: on the first write of an entity to the dict representation the full
\* payload is tagged with a marker made of the identity token of the source
\* object, whether its key is set or not, and every reference payload
\* returned later for that entity carries that marker.
C33_SurrogateMarkerFromIdentity ==
    [][ /\ FirstWriteStep =>
             /\ dst'[Top.dest].PYXID = IdToken(Top.src)
             /\ Registered_short.PYXPTR = IdToken(Top.src)
        /\ LaterReferenceStep =>
             /\ dst[retval'].kind = "ref"
             /\ dst[retval'].PYXPTR = IdToken(Top.src) ]_vars

\* pyxfer tags the full payload when the key of the source is not set, and
\* only then; the reference payload carries the key when it is set.
C33_PyxferMarkerOnlyWithoutKey ==
    [][ cfg.impl = "pyxfer" =>
          /\ FirstWriteStep =>
               IF src[Top.src].key = None
               THEN /\ dst'[Top.dest].PYXID = IdToken(Top.src)
                    /\ Registered_short.PYXPTR = IdToken(Top.src)
               ELSE /\ dst'[Top.dest].PYXID = None
                    /\ Registered_short.PYXPTR = src[Top.src].key
          /\ LaterReferenceStep =>
               /\ dst[retval'].kind = "ref"
               /\ dst[retval'].PYXPTR =
                     IF src[Top.src].key = None THEN IdToken(Top.src)
                                                ELSE src[Top.src].key ]_vars

\* montgomery tags nothing: the reference payload holds the key field, set
\* or not.
C33_MontgomeryNoMarker ==
    [][ cfg.impl = "montgomery" =>
          /\ FirstWriteStep =>
               /\ dst'[Top.dest].PYXID = None
               /\ Registered_short.PYXPTR = None
               /\ Registered_short[KeyAttr(Top.type)] = src[Top.src].key
          /\ LaterReferenceStep =>
               /\ dst[retval'].PYXPTR = None
               /\ dst[retval'][KeyAttr(Top.type)] = src[Top.src].key ]_vars

----------------------------------------------------------------------------
(***************************************************************************)
(* Properties of the order of a reconciled list                            *)
(***************************************************************************)

\* The items the collection 'parts' of the destination d held before the
\* call: the persistent parts when d is the persistent Order, none when d was
\* created by the call.  They were in the order of their identifiers.
Original(d) ==
    IF dst[d].persistent
    THEN { x \in DOMAIN dst : dst[x].persistent /\ dst[x].type = "OrderPart" }
    ELSE {}

\* The first position of the source collection S whose item was transcoded
\* into the destination x; past the end when there is none.
FirstPosition(S, x) ==
    IF \E i \in DOMAIN S : <<S[i], x>> \in produced
    THEN CHOOSE i \in DOMAIN S :
             /\ <<S[i], x>> \in produced
             /\ \A j \in 1..(i - 1) : <<S[j], x>> \notin produced
    ELSE Len(S) + 1

\* The list L is made of items of Original(d) in their original order,
\* followed by items that d did not hold, in the order of the source S.
RetainedThenNew(d, L, S) ==
    \E m \in 0..Len(L) :
        /\ \A a \in 1..m : L[a] \in Original(d)
        /\ \A a, b \in 1..m : a < b => L[a] < L[b]
        /\ \A a \in (m + 1)..Len(L) :
              /\ L[a] \notin Original(d)
              /\ FirstPosition(S, L[a]) <= Len(S)
        /\ \A a, b \in (m + 1)..Len(L) :
              a < b => FirstPosition(S, L[a]) < FirstPosition(S, L[b])

\* C34: a reconciliation into a list-shaped destination collection leaves
\* the retained items in their original relative order, followed by the
\* newly created items in the order of the source.
C34_RetainedThenNewInSourceOrder ==
    Reconciled => RetainedThenNew(Top.dest, dst[Top.dest].parts, src[Top.src].parts)

\* The same statement for the montgomery generator alone, on source
\* collections whose keys are pairwise distinct.
C34_MontgomeryRetainedThenNewInSourceOrder ==
    (cfg.impl = "montgomery" /\ DistinctSourceKeys) => C34_RetainedThenNewInSourceOrder

----------------------------------------------------------------------------
(***************************************************************************)
(* Properties of the destination of an item                                *)
(***************************************************************************)

\* The invocation at position i of the stack was entered by the loop over a
\* collection relation of a SQLA destination and has not started yet.
ItemEntered(i) ==
    /\ i > 1
    /\ cfg.dstRep = "sqla"
    /\ stack[i].pc = "start"
    /\ stack[i - 1].pc = "loop_ret"

\* C35: during the reconciliation of a collection the destination handed to
\* the serializer of an item, when there is one, is an instance of the type
\* of the items that the destination collection holds: never an instance of
\* another type found in the cache under the key of the item.
C35_ItemDestinationIsItemOfCollection ==
    \A i \in DOMAIN stack :
        (ItemEntered(i) /\ stack[i].darg # None) =>
            /\ dst[stack[i].darg].type = stack[i].type
            /\ stack[i].darg \in Range(dst[stack[i - 1].dest].parts)

\* The same statement for the montgomery generator alone.
C35_MontgomeryItemDestinationIsItemOfCollection ==
    cfg.impl = "montgomery" => C35_ItemDestinationIsItemOfCollection

\* With the pyxfer generator the only destination an item ever gets is the
\* instance of the parent: the one registered under the cache base name of
\* the parent with the key of the item.
C35_PyxferItemDestinationIsParent ==
    \A i \in DOMAIN stack :
        (cfg.impl = "pyxfer" /\ ItemEntered(i) /\ stack[i].darg # None) =>
            /\ cfg.srcRep = "dict"
            /\ stack[i].darg = stack[i - 1].dest
            /\ dst[stack[i].darg].type = "Order"

----------------------------------------------------------------------------
(***************************************************************************)
(* Properties of the cache keys                                            *)
(***************************************************************************)

\* The source nodes a call on the root Order can reach.
Reachable ==
    ( {RootOrder} \cup Range(src[RootOrder].parts)
        \cup { src[n].order : n \in Range(src[RootOrder].parts) } ) \ {None}

\* The entity a source node stands for: a short dict stands for the entity
\* of its full dict.
EntityOf(n) == IF src[n].ref THEN FullOf(n) ELSE n

\* Two source nodes are the same entity: the same object, a short dict and
\* its full dict, or two records of one type with the same (set) key.
SameEntity(n, m) ==
    \/ EntityOf(n) = EntityOf(m)
    \/ /\ src[EntityOf(n)].type = src[EntityOf(m)].type
       /\ src[EntityOf(n)].key # None
       /\ src[EntityOf(n)].key = src[EntityOf(m)].key

\* The cache key the serializer of the type of n computes for n.
KeyOf(n) == cache_key(cfg.impl, cfg.srcRep, CacheBase(src[n].type), n, src[n])

\* C36: two distinct source entities of the same type that a call reaches
\* never have the same cache key (a key that is None caches nothing), be it
\* made of key values, of a surrogate marker or of a reference marker.
C36_DistinctEntitiesDistinctKeys ==
    \A n, m \in Reachable :
        (src[n].type = src[m].type /\ ~SameEntity(n, m)) =>
            (KeyOf(n) = NoKey \/ KeyOf(n) # KeyOf(m))

\* The same statement for the montgomery generator alone.
C36_MontgomeryDistinctEntitiesDistinctKeys ==
    cfg.impl = "montgomery" => C36_DistinctEntitiesDistinctKeys

\* The same statement for the pyxfer generator alone, for sources in which
\* every dict with an unset key holds a marker.
C36_PyxferDistinctKeysWhenMarked ==
    ( /\ cfg.impl = "pyxfer"
      /\ \A n \in Reachable :
            (cfg.srcRep = "dict" /\ src[n].key = None) =>
                (src[n].PYXID # None \/ src[n].PYXPTR # None) )
    => C36_DistinctEntitiesDistinctKeys

----------------------------------------------------------------------------
(***************************************************************************)
(* Properties of a walk that fails                                         *)
(***************************************************************************)

\* The errors of walk about the fields control: a relation without a
\* directive, a directive naming no field or relation of the mapper.
ConfigurationErrors == {"missing_directive", "KeyError", "unknown_name"}

\* The step is a call of walk that raises a configuration error.
FailedWalkStep == WalkStep /\ gen'.out.err.kind \in ConfigurationErrors

\* C37: a call of walk that fails with a configuration error leaves the
\* registry of the walker as it was before the call.
C37_FailedWalkLeavesRegistry ==
    [][ FailedWalkStep => gen'.reg = gen.reg ]_vars

\* What the code does instead: the failed call has registered the Serializer
\* it was asked for, which was not registered before.
C37_FailedWalkRegisters ==
    [][ FailedWalkStep =>
          LET fn == func_name(cfg.impl, gen'.out.base, cfg.srcRep, cfg.dstRep, gen'.out.name)
          IN  /\ fn \notin DOMAIN gen.reg
              /\ DOMAIN gen'.reg = DOMAIN gen.reg \cup {fn}
              /\ gen'.out.ret = << >> ]_vars

\* So walking the same transform again on the same walker, whatever the
\* fields control, is refused as a duplicate.
C37_RetryIsDuplicate ==
    [][ ( /\ gen.out.op = "walk"
          /\ gen.out.err.kind \in ConfigurationErrors
          /\ WalkStep
          /\ gen'.out.base = gen.out.base
          /\ gen'.out.name = gen.out.name )
        => gen'.out.err.kind = "duplicate" ]_vars

----------------------------------------------------------------------------
(***************************************************************************)
(* Properties of the collections of objects and dicts                      *)
(***************************************************************************)

\* The destination is a plain object or a dict.
Rebuilds == cfg.dstRep \in {"dict", "obj"}

\* The entries that the collection of the destination handed to the
\* top-level call held before the call.
EntriesBefore(f) ==
    IF Len(stack) = 1 /\ f.darg # None
    THEN Range(Existing(cfg.dstRep)[f.darg].parts)
    ELSE {}

\* The step ends the copy of a collection relation into an object or a dict.
RebuildEndStep ==
    /\ Rebuilds
    /\ Running
    /\ Top.pc = "loop"
    /\ last'.op = "relation_copy_end"

\* The step enters the serializer of an item of such a relation.
RebuildItemStep ==
    /\ Rebuilds
    /\ Running
    /\ Top.pc = "loop"
    /\ last'.op = "relation_item_call"
    /\ Len(stack') = Len(stack) + 1

\* C38: for a destination that is a plain object or a dict, the copy of a
\* delegated collection relation leaves one entry per source item, in the
\* order of the source, each entry being what the serializer of the item
\* returned, a serializer that was called without destination; no entry
\* that the destination collection held before the call remains.
C38_RebuiltFromSourceInOrder ==
    [][ /\ RebuildItemStep =>
              /\ stack'[Len(stack')].src = src[Top.src].parts[Top.i]
              /\ stack'[Len(stack')].darg = None
        /\ RebuildEndStep =>
              LET L == src[Top.src].parts
                  P == dst'[Top.dest].parts
              IN  /\ Len(P) = Len(L)
                  /\ \A i \in DOMAIN L : <<L[i], P[i]>> \in produced
                  /\ Range(P) \cap EntriesBefore(Top) = {}
      ]_vars

\* A top-level call that was handed a dict or an object holding one entry
\* has just ended the copy of a source collection of two items.
C38_Witness ==
    /\ Rebuilds
    /\ Running
    /\ last.op = "relation_copy_end"
    /\ Len(stack) = 1
    /\ Top.darg # None
    /\ EntriesBefore(Top) # {}
    /\ Len(src[Top.src].parts) = 2
    /\ Len(dst[Top.dest].parts) = 2

============================================================================
